---- MODULE Spec2Model ----
(***************************************************************************)
(* A model of the GOLD engine of gold-parser-tools: the longest-match DFA  *)
(* lexer with its group engine (src/src/engine/lexer.ts), and the LALR     *)
(* driver parse_string with its own next_token (src/src/engine/parser.ts), *)
(* run on the tables of the Equality grammar of docs/engine/parser.md      *)
(* extended by a block comment and a line comment group.                   *)
(*                                                                         *)
(* Positions are 0-based as in the source; strings are sequences of        *)
(* one-character strings; object references (DFA state, LALR state, rule,  *)
(* group) are the indices of the tables.                                   *)
(***************************************************************************)
EXTENDS Integers, Sequences, FiniteSets, TLC

VARIABLES
  str,          \* the input string (both specifications)
  \* ---- parse_string (parser.ts)
  pc,           \* where parse_string stands: "loop", "on_token", "on_shift",
                \* "on_reduce" (suspended in that observer) or "done"
  current_pos,  \* parse_string's current_pos
  look_ahead,   \* parse_string's look_ahead (a token or undefined)
  stack,        \* the LRStack
  result,       \* what parse_string returned (undefined while running)
  lexed,        \* history: the tokens next_token returned to parse_string
  events,       \* history: the observer calls made so far
  \* ---- next_token of lexer.ts, one loop iteration per step
  lx_pc,        \* "dfa_match", "next_token", "scan", "eof", "local", "done"
  lx_start,     \* the position argument
  lx_pos,       \* next_token's current_pos
  group_stack,  \* next_token's group_stack
  lx_token,     \* next_token's token variable
  lx_closed,    \* history: the last close_group call (frame, closing token, end, token)
  lx_eof,       \* history: the group_stack when the scan loop ended at the end of
                \* the input (empty before)
  lx_result,    \* what next_token of lexer.ts returned
  dm,           \* what dfa_match (lexer.ts:192) returned for (str, lx_start)
  dm_old,       \* what dfa_match (lexer.ts:71) returned for (str, lx_start)
  local_result, \* what next_token of parser.ts returned for (str, lx_start)
  local_eof,    \* history: the group_stack with which that next_token left its for
                \* loop (empty when it returned from inside the loop)
  \* ---- a second call of parse_string on the same grammar tables
  other,        \* its input, position in the code, locals, result and histories
                \* as one record (undefined when there is no second call)
  \* ---- GRMDebugger (grm_debugger.ts) driving parse_string
  dbg,          \* the fields of the debugger and its histories as one record
                \* (undefined when parse_string runs without the debugger)
  \* ---- load_grammar_tables (loader)
  file,         \* the grammar file: its header string and its records
  loader,       \* the locals of load_grammar_tables, where it stands, and what it
                \* returned or threw
  \* ---- CharRangeSet.contains (lexer.ts)
  ranges,       \* the ranges of the set
  value,        \* the argument of contains
  contained     \* what contains returned

parse_vars == <<pc, current_pos, look_ahead, stack, result, lexed, events>>
lex_vars == <<lx_pc, lx_start, lx_pos, group_stack, lx_token, lx_closed, lx_eof,
              lx_result, dm, dm_old, local_result, local_eof>>
vars == <<str, pc, current_pos, look_ahead, stack, result, lexed, events,
          lx_pc, lx_start, lx_pos, group_stack, lx_token, lx_closed, lx_eof,
          lx_result, dm, dm_old, local_result, local_eof, other,
          dbg, file, loader, ranges, value, contained>>
more_vars == <<dbg, file, loader, ranges, value, contained>>

(***************************************************************************)
(* Bounds of the model.                                                    *)
(***************************************************************************)
\* the inputs of parse_string are the concatenations of at most MaxWords words
MaxWords == 4
\* the inputs of the lexer functions: at most MaxLexWords words
MaxLexWords == 3

ParseWords == { <<"a">>, <<"+">>, <<"=", "=">>, <<"=">>, <<" ">>,
                <<"/", "*">>, <<"*", "/">>, <<"/", "*", "*", "/">> }

\* the inputs of dfa_match on the DFA with overlapping labels: at most
\* MaxTieWords characters
MaxTieWords == 3
TieWords == { <<"a">>, <<"b">>, <<"c">> }

LexWords == { <<"a">>, <<"3">>, <<".">>, <<"=">>, <<"/", "*">>, <<"*", "/">>,
              <<"/", "/">>, <<"\n">> }

RECURSIVE Concat(_)
Concat(ws) == IF ws = <<>> THEN <<>> ELSE Head(ws) \o Concat(Tail(ws))

InputsOf(words, n) ==
  { Concat(ws) : ws \in UNION { [1..k -> words] : k \in 0..n } }

(***************************************************************************)
(* JavaScript values.                                                      *)
(***************************************************************************)
undefined == [undefined |-> TRUE]

Min(a, b) == IF a < b THEN a ELSE b
Max(a, b) == IF a > b THEN a ELSE b

\* String.prototype.substring(start, end): both clamped to 0..length, swapped
\* when start > end
substring(s, from, to) ==
  LET a == Max(0, Min(from, Len(s)))
      b == Max(0, Min(to, Len(s)))
  IN  SubSeq(s, Min(a, b) + 1, Max(a, b))

\* String.prototype.toLowerCase on the symbol names of the tables
toLowerCase(name) ==
  CASE name = "NewLine"    -> "newline"
    [] name = "Comment"    -> "comment"
    [] name = "Whitespace" -> "whitespace"
    [] name = "Identifier" -> "identifier"
    [] name = "Constant"   -> "constant"
    [] name = "Operator"   -> "operator"
    [] name = "Equality"   -> "equality"
    [] name = "Expression" -> "expression"
    [] name = "Value"      -> "value"
    [] name = "EOF"        -> "eof"
    [] name = "Error"      -> "error"
    [] OTHER               -> name

(***************************************************************************)
(* enum SymbolType, enum LRActionType                                      *)
(***************************************************************************)
NON_TERMINAL == 0
TERMINAL == 1
SKIP_SYMBOLS == 2
FILE_END == 3
GROUP_START == 4
GROUP_END == 5
COMMENT_LINE == 6
ERROR == 7

SHIFT == 1
REDUCE == 2
GOTO == 3
ACCEPT == 4

(***************************************************************************)
(* The grammar tables.  symbols[i].group is the index of the group that    *)
(* build_groups attached to the symbol.                                    *)
(***************************************************************************)
Sym(n, t) == [name |-> n, type |-> t]
GSym(n, t, g) == [name |-> n, type |-> t, group |-> g]

symbol_table ==
  << Sym("EOF", FILE_END),            \* 0
     Sym("Error", ERROR),             \* 1
     Sym("Whitespace", SKIP_SYMBOLS), \* 2
     Sym("Comment", SKIP_SYMBOLS),    \* 3
     GSym("/*", GROUP_START, 1),      \* 4
     GSym("*/", GROUP_END, 1),        \* 5
     GSym("//", GROUP_START, 0),      \* 6
     GSym("NewLine", SKIP_SYMBOLS, 0),\* 7
     Sym("Identifier", TERMINAL),     \* 8
     Sym("Constant", TERMINAL),       \* 9
     Sym("Operator", TERMINAL),       \* 10
     Sym("==", TERMINAL),             \* 11
     Sym("Equality", NON_TERMINAL),   \* 12
     Sym("Expression", NON_TERMINAL), \* 13
     Sym("Value", NON_TERMINAL),      \* 14
     GSym("{", GROUP_START, 2),       \* 15
     GSym("}", GROUP_END, 2),         \* 16
     Sym("Value", TERMINAL) >>        \* 17

symbols(i) == symbol_table[i + 1]

\* interface MatchGroup; the symbols are held by index
group_table ==
  << [name |-> "Comment Line", symbol |-> 3, start_symbol |-> 6, end_symbol |-> 7,
      advance_mode |-> "Char", ending_mode |-> "Open",
      nestable_groups |-> {"Comment Block", "Comment Line"}],
     [name |-> "Comment Block", symbol |-> 3, start_symbol |-> 4, end_symbol |-> 5,
      advance_mode |-> "Char", ending_mode |-> "Closed",
      nestable_groups |-> {"Comment Block"}],
     [name |-> "Block", symbol |-> 3, start_symbol |-> 15, end_symbol |-> 16,
      advance_mode |-> "Token", ending_mode |-> "Closed",
      nestable_groups |-> {"Block"}] >>

groups(i) == group_table[i + 1]

Edge(l, t) == [label |-> l, target |-> t]
DState(i, r, e) == [index |-> i, result |-> r, edges |-> e]

\* interface DFAState: the DFA that build_dfa links; result is the accepting
\* symbol or undefined
dfa_table ==
  << DState(0, undefined,
            << Edge({"a"}, 1), Edge({"3"}, 2), Edge({"+", "-"}, 5),
               Edge({"="}, 6), Edge({"/"}, 8), Edge({"*"}, 11),
               Edge({" "}, 13), Edge({"\n"}, 14), Edge({"{"}, 19),
               Edge({"}"}, 20), Edge({"v"}, 21) >>),
     DState(1, symbols(8), << Edge({"a", "3"}, 1) >>),
     DState(2, symbols(9), << Edge({"3"}, 2), Edge({"."}, 3) >>),
     DState(3, undefined, << Edge({"3"}, 4) >>),
     DState(4, symbols(9), << Edge({"3"}, 4) >>),
     DState(5, symbols(10), << >>),
     DState(6, undefined, << Edge({"="}, 7) >>),
     DState(7, symbols(11), << >>),
     DState(8, symbols(10), << Edge({"*"}, 9), Edge({"/"}, 10) >>),
     DState(9, symbols(4), << >>),
     DState(10, symbols(6), << >>),
     DState(11, symbols(10), << Edge({"/"}, 12) >>),
     DState(12, symbols(5), << >>),
     DState(13, symbols(2), << Edge({" "}, 13) >>),
     DState(14, symbols(7), << >>),
     \* states no edge of the states above leads to: a DFA whose edge labels
     \* overlap, linked by build_dfa in the order of the edges (part_005:381-386)
     DState(15, undefined,
            << Edge({"a", "b"}, 16), Edge({"b", "c"}, 17), Edge({"a"}, 18) >>),
     DState(16, symbols(8), << Edge({"a"}, 16), Edge({"a", "b"}, 17) >>),
     DState(17, symbols(9), << Edge({"c"}, 17), Edge({"c"}, 18) >>),
     DState(18, symbols(10), << >>),
     \* the states of the delimiters of the group that advances by token
     DState(19, symbols(15), << >>),
     DState(20, symbols(16), << >>),
     \* the state of the terminal named like the non-terminal Value
     DState(21, symbols(17), << >>) >>

dfa_states(i) == dfa_table[i + 1]

\* the dfa argument of next_token and parse_string: the initial DFA state
dfa == 0

\* the dfa argument of dfa_match for the DFA with overlapping labels
tie_dfa == 15

(***************************************************************************)
(* lexer.ts                                                                *)
(***************************************************************************)
\* function char_in_set, for a SimpleCharset
char_in_set(char, charset) == char \in charset

\* the scan keeping the last edge whose label has char instead of the first
edge_scan_last(edges, char, k) ==
  IF { j \in k..Len(edges) : char_in_set(char, edges[j].label) } = {} THEN undefined
  ELSE edges[CHOOSE j \in k..Len(edges) :
               /\ char_in_set(char, edges[j].label)
               /\ \A i \in (j + 1)..Len(edges) : ~char_in_set(char, edges[i].label)]

RECURSIVE edge_scan(_, _, _)
edge_scan(edges, char, k) ==
  IF k > Len(edges) THEN undefined
  ELSE IF char_in_set(char, edges[k].label) THEN edges[k]
  ELSE edge_scan(edges, char, k + 1)

\* function edge_with_label: the first edge of the state whose label has char
edge_with_label(state, char) == edge_scan(state.edges, char, 1)

Token(sym, val, pos) == [symbol |-> sym, value |-> val, position |-> pos]

\* const EOF_SYMBOL and the token dfa_match returns at the end of the input
EOF_SYMBOL == [name |-> "(EOF)", type |-> FILE_END]
EOF_TOKEN(s) == Token(EOF_SYMBOL, <<"(", "E", "O", "F", ")">>, Len(s))

\* the loop of dfa_match (lexer.ts:205-222), i the loop variable
RECURSIVE dfa_match_loop(_, _, _, _, _)
dfa_match_loop(s, start_pos, i, current_state, last_match) ==
  IF ~(i < Len(s)) THEN last_match
  ELSE
    LET chr == s[i + 1]
        edge == edge_with_label(dfa_states(current_state), chr)
    IN  IF edge = undefined THEN last_match
        ELSE
          LET next == dfa_states(edge.target)
              match == IF next.result # undefined
                       THEN Token(next.result, substring(s, start_pos, i + 1), start_pos)
                       ELSE last_match
          IN  dfa_match_loop(s, start_pos, i + 1, edge.target, match)

\* function dfa_match (lexer.ts:192-224)
dfa_match(s, start_pos, initial) ==
  IF start_pos >= Len(s) THEN EOF_TOKEN(s)
  ELSE dfa_match_loop(s, start_pos, start_pos, initial, undefined)

\* the token the older dfa_match returns when it has no match at the end
OLD_EOF_TOKEN(s) ==
  Token([name |-> "EOF", type |-> FILE_END], <<"E", "O", "F">>, Len(s))

\* the loop of the older dfa_match (lexer.ts:75-95): result of the function
\* when it returns inside the loop, [fell |-> last_match] when the loop ends
RECURSIVE dfa_match_old_loop(_, _, _, _, _)
dfa_match_old_loop(s, start_pos, i, current_state, last_match) ==
  IF ~(i < Len(s)) THEN [fell |-> last_match]
  ELSE
    LET chr == s[i + 1]
        edge == edge_scan(dfa_states(current_state).edges, chr, 1)
    IN  IF edge = undefined THEN [returned |-> last_match]
        ELSE
          LET next == dfa_states(edge.target)
              match == IF next.result # undefined
                       THEN Token(next.result, substring(s, start_pos, i + 1), start_pos)
                       ELSE last_match
          IN  dfa_match_old_loop(s, start_pos, i + 1, edge.target, match)

\* function dfa_match of the older lexer.ts (lexer.ts:71-104), the one
\* parser.ts imports
dfa_match_old(s, start_pos, initial) ==
  LET r == dfa_match_old_loop(s, start_pos, start_pos, initial, undefined)
  IN  IF "returned" \in DOMAIN r THEN r.returned
      ELSE IF r.fell = undefined THEN OLD_EOF_TOKEN(s)
      ELSE r.fell

(***************************************************************************)
(* lexer.ts: group matching                                                *)
(***************************************************************************)
Top(stk) == stk[Len(stk)]
Pop(stk) == SubSeq(stk, 1, Len(stk) - 1)

\* function close_group (lexer.ts:253-266): the token and the stack it leaves
close_group(stk, end_pos, s) ==
  LET top_group == Top(stk)
      new_token == [position |-> top_group.start_position,
                    symbol |-> symbols(groups(top_group.group).symbol),
                    value |-> substring(s, top_group.start_position, end_pos),
                    nested_tokens |-> top_group.nested_tokens]
      popped == Pop(stk)
  IN  [token |-> new_token,
       stack |-> IF Len(popped) > 0
                 THEN [popped EXCEPT ![Len(popped)].nested_tokens =
                                       Append(@, new_token)]
                 ELSE popped]

\* the name the closing token's symbol is compared with (lexer.ts:302)
NEWLINE_NAME == "'newline'"

\* next_token (lexer.ts:268-278): the first dfa_match and the opening frame
NextTokenCall ==
  /\ lx_pc = "next_token"
  /\ LET token == dfa_match(str, lx_start, dfa)
     IN  IF token = undefined \/ token.symbol.type # GROUP_START
         THEN /\ lx_result' = token
              /\ lx_pc' = "local"
              /\ UNCHANGED <<group_stack, lx_pos, lx_token>>
         ELSE /\ group_stack' = << [group |-> token.symbol.group,
                                    start_position |-> lx_start,
                                    nested_tokens |-> <<>>] >>
              /\ lx_pos' = lx_start + Len(token.value)
              /\ lx_token' = token
              /\ lx_pc' = "scan"
              /\ UNCHANGED lx_result
  /\ UNCHANGED <<str, lx_start, lx_closed, lx_eof, dm, dm_old, local_result, local_eof>>
  /\ UNCHANGED <<parse_vars, other, more_vars>>

\* next_token (lexer.ts:300-318): the top frame is closed by token at
\* group_end; unless the group token is returned the position moves on by the
\* token's length and then by increment, the advance of lines 313-318
ScanClose(current_group, token, group_end, increment) ==
  /\ lx_closed' = [frame |-> current_group, closing |-> token, end |-> group_end,
                   token |-> close_group(group_stack, group_end, str).token]
  /\ group_stack' = close_group(group_stack, group_end, str).stack
  /\ IF Len(group_stack) = 1
     THEN /\ lx_result' = close_group(group_stack, group_end, str).token
          /\ lx_pc' = "local"
          /\ UNCHANGED lx_pos
     ELSE /\ lx_pos' = lx_pos + Len(token.value) + increment
          /\ UNCHANGED <<lx_pc, lx_result>>

\* the body of the scan loop opening a frame for every group-start token,
\* nestable in the current group or not
ScanIteration_pushes_any(current_group, grp, token) ==
  /\ lx_token' = token
  /\ IF /\ token # undefined
        /\ token.symbol.type = GROUP_START
     THEN /\ group_stack' = Append(group_stack,
                                   [group |-> token.symbol.group,
                                    start_position |-> lx_pos,
                                    nested_tokens |-> <<>>])
          /\ lx_pos' = lx_pos + Len(token.value)
          /\ UNCHANGED <<lx_pc, lx_result, lx_closed>>
     ELSE IF /\ token # undefined
             /\ token.symbol.name = symbols(grp.end_symbol).name
     THEN ScanClose(current_group, token,
                    IF toLowerCase(token.symbol.name) # NEWLINE_NAME
                    THEN token.position + Len(token.value)
                    ELSE token.position,
                    IF grp.advance_mode = "Char" THEN 1 ELSE Len(token.value))
     ELSE /\ lx_pos' = lx_pos + (IF grp.advance_mode = "Char" \/ token = undefined
                                 THEN 1 ELSE Len(token.value))
          /\ UNCHANGED <<group_stack, lx_pc, lx_result, lx_closed>>

\* next_token (lexer.ts:282-318): the body of the scan loop, current_group the
\* top frame and token what dfa_match returned at current_pos
ScanIteration(current_group, grp, token) ==
  /\ lx_token' = token
  /\ IF /\ token # undefined
        /\ token.symbol.type = GROUP_START
        /\ groups(token.symbol.group).name \in grp.nestable_groups
     THEN \* start of a new nestable group
          /\ group_stack' = Append(group_stack,
                                   [group |-> token.symbol.group,
                                    start_position |-> lx_pos,
                                    nested_tokens |-> <<>>])
          /\ lx_pos' = lx_pos + Len(token.value)
          /\ UNCHANGED <<lx_pc, lx_result, lx_closed>>
     ELSE IF /\ token # undefined
             /\ token.symbol.name = symbols(grp.end_symbol).name
     THEN \* end of group
          ScanClose(current_group, token,
                    IF toLowerCase(token.symbol.name) # NEWLINE_NAME
                    THEN token.position + Len(token.value)
                    ELSE token.position,
                    IF grp.advance_mode = "Char" THEN 1 ELSE Len(token.value))
     ELSE \* all other tokens
          /\ lx_pos' = lx_pos + (IF grp.advance_mode = "Char" \/ token = undefined
                                 THEN 1 ELSE Len(token.value))
          /\ UNCHANGED <<group_stack, lx_pc, lx_result, lx_closed>>

\* next_token (lexer.ts:281-323): one iteration of the scan loop, or its exit
NextTokenScan ==
  /\ lx_pc = "scan"
  /\ IF lx_pos < Len(str)
     THEN /\ ScanIteration(Top(group_stack), groups(Top(group_stack).group),
                           dfa_match(str, lx_pos, dfa))
          /\ UNCHANGED lx_eof
     ELSE /\ lx_token' = undefined
          /\ lx_pc' = "eof"
          /\ lx_eof' = group_stack
          /\ UNCHANGED <<group_stack, lx_pos, lx_result, lx_closed>>
  /\ UNCHANGED <<str, lx_start, dm, dm_old, local_result, local_eof>>
  /\ UNCHANGED <<parse_vars, other, more_vars>>

\* the loop over the open groups closing every frame, whatever its ending mode
NextTokenEof_closes_all ==
  /\ lx_pc = "eof"
  /\ IF Len(group_stack) > 0
     THEN /\ lx_token' = close_group(group_stack, Len(str), str).token
          /\ group_stack' = close_group(group_stack, Len(str), str).stack
          /\ lx_closed' = [frame |-> Top(group_stack), closing |-> undefined,
                           end |-> Len(str),
                           token |-> close_group(group_stack, Len(str), str).token]
          /\ UNCHANGED <<lx_pc, lx_result>>
     ELSE /\ lx_result' = lx_token
          /\ lx_pc' = "local"
          /\ UNCHANGED <<lx_token, group_stack, lx_closed>>
  /\ UNCHANGED <<str, lx_start, lx_pos, lx_eof, dm, dm_old, local_result, local_eof>>
  /\ UNCHANGED <<parse_vars, other, more_vars>>

\* the loop over the open groups reporting the frames top of stack first
NextTokenEof_top_first ==
  /\ lx_pc = "eof"
  /\ IF Len(group_stack) > 0
     THEN IF groups(Top(group_stack).group).ending_mode = "Open"
          THEN /\ lx_token' = close_group(group_stack, Len(str), str).token
               /\ group_stack' = close_group(group_stack, Len(str), str).stack
               /\ lx_closed' = [frame |-> Top(group_stack), closing |-> undefined,
                                end |-> Len(str),
                                token |-> close_group(group_stack, Len(str), str).token]
               /\ UNCHANGED <<lx_pc, lx_result>>
          ELSE /\ lx_result' = [groups |-> [k \in 1..Len(group_stack) |->
                                              group_stack[Len(group_stack) - k + 1]]]
               /\ lx_pc' = "local"
               /\ UNCHANGED <<lx_token, group_stack, lx_closed>>
     ELSE /\ lx_result' = lx_token
          /\ lx_pc' = "local"
          /\ UNCHANGED <<lx_token, group_stack, lx_closed>>
  /\ UNCHANGED <<str, lx_start, lx_pos, lx_eof, dm, dm_old, local_result, local_eof>>
  /\ UNCHANGED <<parse_vars, other, more_vars>>

\* next_token (lexer.ts:325-336): one iteration of the loop over the groups
\* still open at the end of the input, or the final return
NextTokenEof ==
  /\ lx_pc = "eof"
  /\ IF Len(group_stack) > 0
     THEN LET top == Top(group_stack)
          IN  IF groups(top.group).ending_mode = "Open"
              THEN LET closed == close_group(group_stack, Len(str), str)
                   IN  /\ lx_token' = closed.token
                       /\ group_stack' = closed.stack
                       /\ lx_closed' = [frame |-> top, closing |-> undefined,
                                        end |-> Len(str), token |-> closed.token]
                       /\ UNCHANGED <<lx_pc, lx_result>>
              ELSE /\ lx_result' = [groups |-> group_stack]
                   /\ lx_pc' = "local"
                   /\ UNCHANGED <<lx_token, group_stack, lx_closed>>
     ELSE /\ lx_result' = lx_token
          /\ lx_pc' = "local"
          /\ UNCHANGED <<lx_token, group_stack, lx_closed>>
  /\ UNCHANGED <<str, lx_start, lx_pos, lx_eof, dm, dm_old, local_result, local_eof>>
  /\ UNCHANGED <<parse_vars, other, more_vars>>

(***************************************************************************)
(* parser.ts: the next_token of the parser                                 *)
(***************************************************************************)
\* function advance_mode (parser.ts:156-160)
advance_mode(stk) ==
  IF Len(stk) = 0 THEN "Token" ELSE groups(Top(stk).group).advance_mode

\* an increment that skips a character behind a position with no token
next_increment_skips(stk, token) ==
  IF token = undefined THEN 2
  ELSE IF advance_mode(stk) = "Char" THEN 1 ELSE Len(token.value)

\* function next_increment (parser.ts:162-167)
next_increment(stk, token) ==
  IF token = undefined \/ advance_mode(stk) = "Char" THEN 1 ELSE Len(token.value)

\* function close_group (parser.ts:169-177): the token; the caller's stack is
\* popped
parser_close_group(stk, end_pos, s) ==
  LET top_group == Top(stk)
  IN  [position |-> top_group.start_token.position,
       symbol |-> symbols(groups(top_group.group).symbol),
       value |-> substring(s, top_group.start_token.position, end_pos)]

\* next_token (parser.ts:232-243): the groups still open after the loop
RECURSIVE parser_open_groups(_, _, _)
parser_open_groups(s, token, stk) ==
  IF Len(stk) > 0
  THEN IF groups(Top(stk).group).ending_mode = "Open"
       THEN parser_open_groups(s, parser_close_group(stk, Len(s), s), Pop(stk))
       ELSE [groups |-> stk]
  ELSE token

\* a loop body that returns undefined for a position with no token inside a
\* group as well
parser_next_token_body_strict(s, tok, stk) ==
  IF tok = undefined
  THEN [ends |-> "return", token |-> undefined, stack |-> stk]
  ELSE IF tok.symbol.type = FILE_END
  THEN [ends |-> "break", token |-> tok, stack |-> stk]
  ELSE IF /\ tok.symbol.type = GROUP_START
          /\ \/ Len(stk) = 0
             \/ groups(tok.symbol.group).name
                  \in groups(Top(stk).group).nestable_groups
  THEN [ends |-> "continue", token |-> tok,
        stack |-> Append(stk, [group |-> tok.symbol.group, start_token |-> tok])]
  ELSE IF /\ Len(stk) > 0
          /\ symbols(groups(Top(stk).group).end_symbol).name = tok.symbol.name
  THEN [ends |-> "continue",
        token |-> parser_close_group(stk,
                                     IF toLowerCase(tok.symbol.name) = "newline"
                                     THEN tok.position
                                     ELSE tok.position + Len(tok.value),
                                     s),
        stack |-> Pop(stk)]
  ELSE [ends |-> "continue", token |-> tok, stack |-> stk]

\* next_token (parser.ts:190-229): the body of the for loop for the token tok
\* that dfa_match returned; how the body ends ("return", "break" or "continue")
\* with the variables token and group_stack
parser_next_token_body(s, tok, stk) ==
  IF tok = undefined
  THEN IF Len(stk) = 0
       THEN [ends |-> "return", token |-> undefined, stack |-> stk]
       ELSE [ends |-> "continue", token |-> tok, stack |-> stk]
  ELSE IF tok.symbol.type = FILE_END
  THEN [ends |-> "break", token |-> tok, stack |-> stk]
  ELSE IF /\ tok.symbol.type = GROUP_START
          /\ \/ Len(stk) = 0
             \/ groups(tok.symbol.group).name
                  \in groups(Top(stk).group).nestable_groups
  THEN [ends |-> "continue", token |-> tok,
        stack |-> Append(stk, [group |-> tok.symbol.group, start_token |-> tok])]
  ELSE IF /\ Len(stk) > 0
          /\ symbols(groups(Top(stk).group).end_symbol).name = tok.symbol.name
  THEN [ends |-> "continue",
        token |-> parser_close_group(stk,
                                     IF toLowerCase(tok.symbol.name) = "newline"
                                     THEN tok.position
                                     ELSE tok.position + Len(tok.value),
                                     s),
        stack |-> Pop(stk)]
  ELSE [ends |-> "continue", token |-> tok, stack |-> stk]

\* next_token (parser.ts:184-230): the for loop, from its condition; body is
\* the outcome of the loop body at curr_pos. The result is what the body
\* returned, or the variables token and group_stack with which the loop is left
RECURSIVE parser_next_token_loop(_, _, _, _, _)
parser_next_token_step(s, curr_pos, body, initial) ==
  IF body.ends = "return" THEN [returned |-> body.token]
  ELSE IF body.ends = "break" THEN [token |-> body.token, stack |-> body.stack]
  ELSE parser_next_token_loop(s, curr_pos + next_increment(body.stack, body.token),
                              body.token, body.stack, initial)

parser_next_token_loop(s, curr_pos, token, stk, initial) ==
  IF ~(curr_pos <= Len(s) /\ (token = undefined \/ Len(stk) > 0))
  THEN [token |-> token, stack |-> stk]
  ELSE parser_next_token_step(s, curr_pos,
                              parser_next_token_body(s, dfa_match_old(s, curr_pos, initial), stk),
                              initial)

\* next_token (parser.ts:184-230): the iterations of the for loop, each with
\* curr_pos, the token dfa_match returned, the group_stack before and after
\* the body, and the curr_pos the increment of line 188 leads to
RECURSIVE parser_scan_trace(_, _, _, _, _, _)
parser_scan_entry(s, curr_pos, tok, stk, body, initial, acc) ==
  IF body.ends = "continue"
  THEN parser_scan_trace(s, curr_pos + next_increment(body.stack, body.token),
                         body.token, body.stack, initial,
                         Append(acc, [position |-> curr_pos, token |-> tok,
                                      before |-> stk, after |-> body.stack,
                                      next |-> curr_pos + next_increment(body.stack,
                                                                         body.token)]))
  ELSE Append(acc, [position |-> curr_pos, token |-> tok,
                    before |-> stk, after |-> body.stack, next |-> curr_pos])

parser_scan_trace(s, curr_pos, token, stk, initial, acc) ==
  IF ~(curr_pos <= Len(s) /\ (token = undefined \/ Len(stk) > 0))
  THEN acc
  ELSE parser_scan_entry(s, curr_pos, dfa_match_old(s, curr_pos, initial), stk,
                         parser_next_token_body(s, dfa_match_old(s, curr_pos, initial), stk),
                         initial, acc)

\* next_token (parser.ts:232-243): what follows the for loop
parser_after_loop(s, left) ==
  IF "returned" \in DOMAIN left THEN left.returned
  ELSE parser_open_groups(s, left.token, left.stack)

\* the group_stack after the for loop of next_token (parser.ts:184-230)
parser_loop_stack(left) ==
  IF "returned" \in DOMAIN left THEN <<>> ELSE left.stack

\* function next_token (parser.ts:179-244)
parser_next_token(s, position, initial) ==
  parser_after_loop(s, parser_next_token_loop(s, position, undefined, <<>>, initial))

(***************************************************************************)
(* The lexer functions applied to an input and a position.                 *)
(***************************************************************************)
DfaMatch ==
  /\ lx_pc = "dfa_match"
  /\ dm' = dfa_match(str, lx_start, dfa)
  /\ dm_old' = dfa_match_old(str, lx_start, dfa)
  /\ lx_pc' = "next_token"
  /\ UNCHANGED <<str, lx_start, lx_pos, group_stack, lx_token, lx_closed, lx_eof,
                 lx_result, local_result, local_eof>>
  /\ UNCHANGED <<parse_vars, other, more_vars>>

ParserNextToken ==
  /\ lx_pc = "local"
  /\ local_result' = parser_next_token(str, lx_start, dfa)
  /\ local_eof' = parser_loop_stack(
                     parser_next_token_loop(str, lx_start, undefined, <<>>, dfa))
  /\ lx_pc' = "done"
  /\ UNCHANGED <<str, lx_start, lx_pos, group_stack, lx_token, lx_closed, lx_eof,
                 lx_result, dm, dm_old>>
  /\ UNCHANGED <<parse_vars, other, more_vars>>

\* values of the variables a specification does not use
ParseIdle ==
  /\ pc = "idle"
  /\ current_pos = 0
  /\ look_ahead = undefined
  /\ stack = <<>>
  /\ result = undefined
  /\ lexed = <<>>
  /\ events = <<>>

OtherIdle == other = undefined

MoreIdle ==
  /\ dbg = undefined
  /\ file = undefined
  /\ loader = undefined
  /\ ranges = <<>>
  /\ value = ""
  /\ contained = undefined

LexIdle ==
  /\ lx_pc = "idle"
  /\ lx_start = 0
  /\ lx_pos = 0
  /\ group_stack = <<>>
  /\ lx_token = undefined
  /\ lx_closed = undefined
  /\ lx_eof = <<>>
  /\ lx_result = undefined
  /\ dm = undefined
  /\ dm_old = undefined
  /\ local_result = undefined
  /\ local_eof = <<>>

InitLex ==
  /\ str \in InputsOf(LexWords, MaxLexWords)
  /\ lx_start \in 0..Len(str)
  /\ lx_pc = "dfa_match"
  /\ lx_pos = 0
  /\ group_stack = <<>>
  /\ lx_token = undefined
  /\ lx_closed = undefined
  /\ lx_eof = <<>>
  /\ lx_result = undefined
  /\ dm = undefined
  /\ dm_old = undefined
  /\ local_result = undefined
  /\ local_eof = <<>>
  /\ ParseIdle
  /\ OtherIdle
  /\ MoreIdle

NextLex ==
  \/ DfaMatch
  \/ NextTokenCall
  \/ NextTokenScan
  \/ NextTokenEof
  \/ ParserNextToken

SpecLex == InitLex /\ [][NextLex]_vars

\* the lexer functions on the inputs with the group that advances by token:
\* at most MaxTokWords words
MaxTokWords == 5
TokWords == { <<"{">>, <<"}">>, <<"=">>, <<".">>, <<"a">> }

InitTok ==
  /\ str \in InputsOf(TokWords, MaxTokWords)
  /\ lx_start \in 0..Len(str)
  /\ lx_pc = "dfa_match"
  /\ lx_pos = 0
  /\ group_stack = <<>>
  /\ lx_token = undefined
  /\ lx_closed = undefined
  /\ lx_eof = <<>>
  /\ lx_result = undefined
  /\ dm = undefined
  /\ dm_old = undefined
  /\ local_result = undefined
  /\ local_eof = <<>>
  /\ ParseIdle
  /\ OtherIdle
  /\ MoreIdle

NextTok ==
  \/ DfaMatch
  \/ NextTokenCall
  \/ NextTokenScan
  \/ NextTokenEof
  \/ ParserNextToken

SpecTok == InitTok /\ [][NextTok]_vars

(***************************************************************************)
(* dfa_match applied to an input and a position, on the DFA whose labels   *)
(* overlap.                                                                *)
(***************************************************************************)
TieMatch ==
  /\ lx_pc = "tie"
  /\ dm' = dfa_match(str, lx_start, tie_dfa)
  /\ dm_old' = dfa_match_old(str, lx_start, tie_dfa)
  /\ lx_pc' = "done"
  /\ UNCHANGED <<str, lx_start, lx_pos, group_stack, lx_token, lx_closed, lx_eof,
                 lx_result, local_result, local_eof>>
  /\ UNCHANGED <<parse_vars, other, more_vars>>

InitTie ==
  /\ str \in InputsOf(TieWords, MaxTieWords)
  /\ lx_start \in 0..Len(str)
  /\ lx_pc = "tie"
  /\ lx_pos = 0
  /\ group_stack = <<>>
  /\ lx_token = undefined
  /\ lx_closed = undefined
  /\ lx_eof = <<>>
  /\ lx_result = undefined
  /\ dm = undefined
  /\ dm_old = undefined
  /\ local_result = undefined
  /\ local_eof = <<>>
  /\ ParseIdle
  /\ OtherIdle
  /\ MoreIdle

NextTie == TieMatch

SpecTie == InitTie /\ [][NextTie]_vars

(***************************************************************************)
(* parser.ts: the LALR tables of the Equality grammar                      *)
(*   0  <Equality>   ::= <Expression> '==' <Expression>                    *)
(*   1  <Expression> ::= <Value> Operator <Value>                          *)
(*   2  <Expression> ::= <Value>                                           *)
(*   3  <Value>      ::= Identifier                                        *)
(*   4  <Value>      ::= Constant                                          *)
(***************************************************************************)
\* the symbol the LALR tables accept: the start symbol of the grammar
START_SYMBOL == "Equality"

\* interface ParserRule, as load_grammar_tables links the rule records
rule_table ==
  << [produces |-> symbols(12), consumes |-> <<symbols(13), symbols(11), symbols(13)>>],
     [produces |-> symbols(13), consumes |-> <<symbols(14), symbols(10), symbols(14)>>],
     [produces |-> symbols(13), consumes |-> <<symbols(14)>>],
     [produces |-> symbols(14), consumes |-> <<symbols(8)>>],
     [produces |-> symbols(14), consumes |-> <<symbols(9)>>],
     \* the rules of the tables below that state 0 does not lead to:
     \* <Equality> ::= <Value> Value and <Value> ::=
     [produces |-> symbols(12), consumes |-> <<symbols(14), symbols(17)>>],
     [produces |-> symbols(14), consumes |-> << >>] >>

rules(i) == rule_table[i + 1]

Tr(la, ty, v) == [look_ahead_symbol |-> la, action_type |-> ty, value |-> v]

\* the L records of the table file (ParsedLRState.transitions)
lr_state_table ==
  << << Tr(12, GOTO, 1), Tr(13, GOTO, 2), Tr(14, GOTO, 3),
        Tr(8, SHIFT, 4), Tr(9, SHIFT, 5) >>,
     << Tr(0, ACCEPT, 0) >>,
     << Tr(11, SHIFT, 6) >>,
     << Tr(10, SHIFT, 7), Tr(11, REDUCE, 2), Tr(0, REDUCE, 2) >>,
     << Tr(10, REDUCE, 3), Tr(11, REDUCE, 3), Tr(0, REDUCE, 3) >>,
     << Tr(10, REDUCE, 4), Tr(11, REDUCE, 4), Tr(0, REDUCE, 4) >>,
     << Tr(13, GOTO, 8), Tr(14, GOTO, 3), Tr(8, SHIFT, 4), Tr(9, SHIFT, 5) >>,
     << Tr(14, GOTO, 9), Tr(8, SHIFT, 4), Tr(9, SHIFT, 5) >>,
     << Tr(0, REDUCE, 0) >>,
     << Tr(11, REDUCE, 1), Tr(0, REDUCE, 1) >>,
     \* states that state 0 does not lead to. 10 to 14: the tables of the
     \* grammar <Equality> ::= <Value> Value, <Value> ::= Identifier, whose
     \* terminal Value has the name of the non-terminal <Value>
     << Tr(8, SHIFT, 11), Tr(14, GOTO, 12), Tr(12, GOTO, 13) >>,
     << Tr(17, REDUCE, 3) >>,
     << Tr(17, SHIFT, 14) >>,
     << Tr(0, ACCEPT, 0) >>,
     << Tr(0, REDUCE, 5) >>,
     \* 15 to 17: initial states with no goto for <Value>: an action of the
     \* terminal Value, a reduction for the terminal Value, nothing
     << Tr(8, SHIFT, 11), Tr(17, SHIFT, 14) >>,
     << Tr(8, SHIFT, 11), Tr(17, REDUCE, 3) >>,
     << Tr(8, SHIFT, 11) >>,
     \* 18: an initial state that reduces
     << Tr(8, REDUCE, 3), Tr(17, REDUCE, 5) >>,
     \* 19: an initial state that reduces by the empty rule and goes to itself
     << Tr(8, REDUCE, 6), Tr(14, GOTO, 19) >>,
     \* 20: an initial state with an action for the terminal Value and a goto
     \* for the non-terminal <Value>
     << Tr(8, SHIFT, 11), Tr(17, SHIFT, 14), Tr(14, GOTO, 12), Tr(12, GOTO, 13) >> >>

\* the edge "Accept" of an LRState
Accept == [accept |-> TRUE]

\* build_lr (part_005:411-439): the edges map of one state; a later transition
\* for the same symbol name replaces an earlier one (Map.set)
RECURSIVE build_lr_edges(_, _)
build_lr_edges(transitions, k) ==
  IF k = 0 THEN [n \in {} |-> undefined]
  ELSE
    LET before == build_lr_edges(transitions, k - 1)
        transition == transitions[k]
        edge == CASE transition.action_type = ACCEPT -> Accept
                  [] transition.action_type = REDUCE ->
                       [type |-> REDUCE, target |-> transition.value]
                  [] transition.action_type \in {GOTO, SHIFT} ->
                       [type |-> SHIFT, target |-> transition.value]
        look_ahead_name == symbols(transition.look_ahead_symbol).name
    IN  [n \in DOMAIN before \cup {look_ahead_name} |->
           IF n = look_ahead_name THEN edge ELSE before[n]]

\* interface LRState: the states build_lr links
lalr_table ==
  [i \in 1..Len(lr_state_table) |->
     [index |-> i - 1,
      edges |-> build_lr_edges(lr_state_table[i], Len(lr_state_table[i]))]]

lalr_states(i) == lalr_table[i + 1]

\* the lalr argument of parse_string: the initial LALR state
lalr == 0

\* Map.prototype.get
MapGet(map, key) == IF key \in DOMAIN map THEN map[key] ELSE undefined

(***************************************************************************)
(* parser.ts: LALR_step, LALR_setup, parse_string                          *)
(***************************************************************************)
\* interface LRParseTreeNode: the token of a leaf (children: Token) is held in
\* the field token, the children of an inner node in the field children
Leaf(sym, token) == [symbol |-> sym, children |-> <<>>, token |-> token]
Node(sym, children) == [symbol |-> sym, children |-> children, token |-> undefined]

Item(state, tree) == [current_state |-> state, parse_tree |-> tree]

\* the popped trees left in the order of the pops (no reverse())
NotReversed(seq) == seq

Reverse(seq) == [k \in 1..Len(seq) |-> seq[Len(seq) - k + 1]]

\* the tree of the top item taken for every consumed symbol
popped_top_tree(stk, n) == [k \in 1..n |-> stk[Len(stk)].parse_tree]

\* rule.consumes.map(() => stack.pop()!.parse_tree): the popped trees in the
\* order of the pops
popped_trees(stk, n) == [k \in 1..n |-> stk[Len(stk) - k + 1].parse_tree]

\* "next_state.target as LRState" (parser.ts:117): the target of a REDUCE
\* action is a ParserRule, which has no edges; it is held as a negative number
target_as_state(action) ==
  IF action.type = REDUCE THEN -1 - action.target ELSE action.target

\* current_state.edges: undefined when the state is a ParserRule, and get of
\* undefined is a TypeError
no_edges(state) == state < 0
edges_of(state) == lalr_states(state).edges

\* LALR_step (parser.ts:98-118): the push of the new node on the stack left by
\* the pops, next_state the edge of the state then on top for the produced name
LALR_goto(rule, consumes, rest, next_state) ==
  IF next_state = undefined
  THEN [step |-> "THROW", stack |-> rest, error |-> "Symbol not found"]
  ELSE IF next_state = Accept
  THEN [step |-> "THROW", stack |-> rest, error |-> "Unexpected Accept"]
  ELSE IF next_state.type = GOTO
  THEN [step |-> "THROW", stack |-> rest, error |-> "GOTO Expected"]
  ELSE [step |-> "REDUCE",
        stack |-> Append(rest, Item(target_as_state(next_state),
                                    Node(rule.produces, consumes)))]

\* LALR_step (parser.ts:90-120): the reduction by the rule of action
LALR_reduce(action, stk) ==
  LET rule == rules(action.target)
      n == Len(rule.consumes)
      rest == SubSeq(stk, 1, Len(stk) - n)
  IN  IF Len(stk) < n
      THEN [step |-> "THROW", stack |-> stk, error |-> "State mismatch"]
      ELSE IF Len(rest) = 0
      THEN [step |-> "THROW", stack |-> rest, error |-> "TypeError"]
      ELSE IF no_edges(Top(rest).current_state)
      THEN [step |-> "THROW", stack |-> rest, error |-> "TypeError"]
      ELSE LALR_goto(rule, Reverse(popped_trees(stk, n)), rest,
                     MapGet(edges_of(Top(rest).current_state), rule.produces.name))

\* LALR_step dropping the top item before it reports the missing action
LALR_dispatch_pops(token, stk, action) ==
  IF action = undefined THEN [step |-> "ERROR", stack |-> Pop(stk)]
  ELSE IF action = Accept THEN [step |-> "ACCEPT", stack |-> stk]
  ELSE IF action.type = SHIFT
  THEN [step |-> "SHIFT",
        stack |-> Append(stk, Item(action.target, Leaf(token.symbol, token)))]
  ELSE LALR_reduce(action, stk)

\* function LALR_step (parser.ts:69-121): the step result and the stack it
\* leaves; step "THROW" is a thrown Error
LALR_dispatch(token, stk, action) ==
  IF action = undefined THEN [step |-> "ERROR", stack |-> stk]
  ELSE IF action = Accept THEN [step |-> "ACCEPT", stack |-> stk]
  ELSE IF action.type = SHIFT
  THEN [step |-> "SHIFT",
        stack |-> Append(stk, Item(action.target, Leaf(token.symbol, token)))]
  ELSE LALR_reduce(action, stk)

LALR_step(token, stk) ==
  IF no_edges(Top(stk).current_state)
  THEN [step |-> "THROW", stack |-> stk, error |-> "TypeError"]
  ELSE LALR_dispatch(token, stk,
                     MapGet(edges_of(Top(stk).current_state), token.symbol.name))

\* function LALR_setup (parser.ts:123-134)
LALR_setup(initial_state) ==
  << Item(initial_state, Node([name |-> "INITIAL_STATE", type |-> ERROR], <<>>)) >>

\* the "EOF" of ParserError.last_token
EOF_STRING == [string |-> "EOF"]

\* the skip test missing the tokens of groups
skippable_no_group(tok) ==
  tok.symbol.type = SKIP_SYMBOLS /\ tok.symbol.name # "Comment"

\* the bottom item returned on ACCEPT instead of the top one
accepted_tree_bottom(stk) == stk[1].parse_tree

\* parse_string (parser.ts:270): the token is not handed to the parser
skippable(tok) == tok.symbol.type = SKIP_SYMBOLS

\* parse_string (parser.ts:284): the tree returned on ACCEPT
accepted_tree(stk) == Top(stk).parse_tree

\* parse_string taking the look-ahead without a call of on_token
LexToken_unobserved ==
  /\ pc = "loop"
  /\ look_ahead = undefined
  /\ IF ~(current_pos <= Len(str))
     THEN /\ result' = [stack |-> stack, last_token |-> EOF_STRING]
          /\ pc' = "done"
          /\ UNCHANGED <<current_pos, look_ahead, lexed, events>>
     ELSE
       LET tok == parser_next_token(str, current_pos, dfa)
       IN  IF tok = undefined
           THEN /\ result' = [position |-> current_pos]
                /\ pc' = "done"
                /\ UNCHANGED <<current_pos, look_ahead, lexed, events>>
           ELSE IF "groups" \in DOMAIN tok
           THEN /\ result' = tok
                /\ pc' = "done"
                /\ UNCHANGED <<current_pos, look_ahead, lexed, events>>
           ELSE /\ current_pos' = current_pos + Len(tok.value)
                /\ lexed' = Append(lexed, tok)
                /\ IF skippable(tok)
                   THEN UNCHANGED <<look_ahead, pc, events>>
                   ELSE /\ look_ahead' = tok
                        /\ UNCHANGED <<pc, events>>
                /\ UNCHANGED result
  /\ UNCHANGED <<str, stack>>
  /\ UNCHANGED <<lex_vars, other, more_vars>>

\* parse_string going on behind a character that cannot be lexed
LexToken_skips_error ==
  /\ pc = "loop"
  /\ look_ahead = undefined
  /\ IF ~(current_pos <= Len(str))
     THEN /\ result' = [stack |-> stack, last_token |-> EOF_STRING]
          /\ pc' = "done"
          /\ UNCHANGED <<current_pos, look_ahead, lexed, events>>
     ELSE
       LET tok == parser_next_token(str, current_pos, dfa)
       IN  IF tok = undefined
           THEN /\ current_pos' = current_pos + 1
                /\ UNCHANGED <<pc, result, look_ahead, lexed, events>>
           ELSE IF "groups" \in DOMAIN tok
           THEN /\ result' = tok
                /\ pc' = "done"
                /\ UNCHANGED <<current_pos, look_ahead, lexed, events>>
           ELSE /\ current_pos' = current_pos + Len(tok.value)
                /\ lexed' = Append(lexed, tok)
                /\ IF skippable(tok)
                   THEN UNCHANGED <<look_ahead, pc, events>>
                   ELSE /\ look_ahead' = tok
                        /\ events' = Append(events, [event |-> "on_token", token |-> tok])
                        /\ pc' = "on_token"
                /\ UNCHANGED result
  /\ UNCHANGED <<str, stack>>
  /\ UNCHANGED <<lex_vars, other, more_vars>>

\* parse_string (parser.ts:259-278 and 306-309): an iteration of the loop with
\* no look-ahead lexes the next token; the loop can only end here
LexToken ==
  /\ pc = "loop"
  /\ look_ahead = undefined
  /\ IF ~(current_pos <= Len(str))
     THEN /\ result' = [stack |-> stack, last_token |-> EOF_STRING]
          /\ pc' = "done"
          /\ UNCHANGED <<current_pos, look_ahead, lexed, events>>
     ELSE
       LET tok == parser_next_token(str, current_pos, dfa)
       IN  IF tok = undefined
           THEN /\ result' = [position |-> current_pos]
                /\ pc' = "done"
                /\ UNCHANGED <<current_pos, look_ahead, lexed, events>>
           ELSE IF "groups" \in DOMAIN tok
           THEN /\ result' = tok
                /\ pc' = "done"
                /\ UNCHANGED <<current_pos, look_ahead, lexed, events>>
           ELSE /\ current_pos' = current_pos + Len(tok.value)
                /\ lexed' = Append(lexed, tok)
                /\ IF skippable(tok)
                   THEN UNCHANGED <<look_ahead, pc, events>>
                   ELSE /\ look_ahead' = tok
                        /\ events' = Append(events, [event |-> "on_token", token |-> tok])
                        /\ pc' = "on_token"
                /\ UNCHANGED result
  /\ UNCHANGED <<str, stack>>
  /\ UNCHANGED <<lex_vars, other, more_vars>>

\* parse_string (parser.ts:280-304): an iteration with a look-ahead does one
\* LALR step, up to the call of the observer
ParseStep ==
  /\ pc = "loop"
  /\ look_ahead # undefined
  /\ LET current_state == Top(stack).current_state
         step == LALR_step(look_ahead, stack)
     IN  CASE step.step = "ACCEPT" ->
                /\ result' = accepted_tree(step.stack)
                /\ stack' = Pop(step.stack)
                /\ pc' = "done"
                /\ UNCHANGED events
           [] step.step = "ERROR" ->
                /\ result' = [last_token |-> look_ahead, stack |-> step.stack]
                /\ stack' = step.stack
                /\ pc' = "done"
                /\ UNCHANGED events
           [] step.step = "REDUCE" ->
                /\ stack' = step.stack
                /\ events' = Append(events, [event |-> "on_reduce",
                                             state |-> current_state,
                                             token |-> look_ahead,
                                             stack |-> step.stack])
                /\ pc' = "on_reduce"
                /\ UNCHANGED result
           [] step.step = "SHIFT" ->
                /\ stack' = step.stack
                /\ events' = Append(events, [event |-> "on_shift",
                                             state |-> current_state,
                                             token |-> look_ahead,
                                             stack |-> step.stack])
                /\ pc' = "on_shift"
                /\ UNCHANGED result
           [] step.step = "THROW" ->
                /\ result' = [error |-> step.error]
                /\ stack' = step.stack
                /\ pc' = "done"
                /\ UNCHANGED events
  /\ UNCHANGED <<str, current_pos, look_ahead, lexed>>
  /\ UNCHANGED <<lex_vars, other, more_vars>>

\* on_token resumes parse_string (parser.ts:275-277)
TokenObserved ==
  /\ pc = "on_token"
  /\ pc' = "loop"
  /\ UNCHANGED <<str, current_pos, look_ahead, stack, result, lexed, events>>
  /\ UNCHANGED <<lex_vars, other, more_vars>>

\* parse_string doing its next LALR step while on_reduce has not returned
ReduceObserved_steps_on ==
  /\ pc = "on_reduce"
  /\ stack' = LALR_step(look_ahead, stack).stack
  /\ pc' = "loop"
  /\ UNCHANGED <<str, current_pos, look_ahead, result, lexed, events>>
  /\ UNCHANGED <<lex_vars, other, more_vars>>

\* on_reduce resumes parse_string (parser.ts:294-296)
ReduceObserved ==
  /\ pc = "on_reduce"
  /\ pc' = "loop"
  /\ UNCHANGED <<str, current_pos, look_ahead, stack, result, lexed, events>>
  /\ UNCHANGED <<lex_vars, other, more_vars>>

\* on_shift resuming a parse_string that keeps the look-ahead
ShiftObserved_keeps ==
  /\ pc = "on_shift"
  /\ pc' = "loop"
  /\ UNCHANGED <<str, current_pos, look_ahead, stack, result, lexed, events>>
  /\ UNCHANGED <<lex_vars, other, more_vars>>

\* on_shift resumes parse_string, which drops the look-ahead (parser.ts:300-303)
ShiftObserved ==
  /\ pc = "on_shift"
  /\ look_ahead' = undefined
  /\ pc' = "loop"
  /\ UNCHANGED <<str, current_pos, stack, result, lexed, events>>
  /\ UNCHANGED <<lex_vars, other, more_vars>>

\* parse_string (parser.ts:255-257)
Init ==
  /\ str \in InputsOf(ParseWords, MaxWords)
  /\ pc = "loop"
  /\ current_pos = 0
  /\ look_ahead = undefined
  /\ stack = LALR_setup(lalr)
  /\ result = undefined
  /\ lexed = <<>>
  /\ events = <<>>
  /\ LexIdle
  /\ OtherIdle
  /\ MoreIdle

Next ==
  \/ LexToken
  \/ ParseStep
  \/ TokenObserved
  \/ ReduceObserved
  \/ ShiftObserved

Spec == Init /\ [][Next]_vars

(***************************************************************************)
(* Two calls of parse_string on the same tables.  The first call is the    *)
(* one the variables above hold; the second is the record other, stepped   *)
(* by run_step, parse_string written as a function of its own locals.      *)
(***************************************************************************)
\* the inputs of the first call: at most MaxTwoWords words
MaxTwoWords == 2

TwoWords == { <<"a">>, <<"a", "=", "=">>, <<"+">>, <<".">>, <<" ">> }

\* the inputs of the second call, besides the input of the first
OtherInputs == { <<"a", "=", "=", "a">>, <<"a", "+", "a", "=", "=", "a">>,
                 <<"a", "=", "=">>, <<".">> }

\* parse_string (parser.ts:255-257): the locals of a call on input s
start_run(s) ==
  [str |-> s, pc |-> "loop", current_pos |-> 0, look_ahead |-> undefined,
   stack |-> LALR_setup(lalr), result |-> undefined, lexed |-> <<>>,
   events |-> <<>>]

\* the locals of the first call as such a record
this_run ==
  [str |-> str, pc |-> pc, current_pos |-> current_pos, look_ahead |-> look_ahead,
   stack |-> stack, result |-> result, lexed |-> lexed, events |-> events]

\* parse_string (parser.ts:262-278): what the call does with the token tok
run_lexed(r, tok) ==
  IF tok = undefined
  THEN [r EXCEPT !.result = [position |-> r.current_pos], !.pc = "done"]
  ELSE IF "groups" \in DOMAIN tok
  THEN [r EXCEPT !.result = tok, !.pc = "done"]
  ELSE IF skippable(tok)
  THEN [r EXCEPT !.current_pos = @ + Len(tok.value), !.lexed = Append(@, tok)]
  ELSE [r EXCEPT !.current_pos = @ + Len(tok.value),
                 !.lexed = Append(@, tok),
                 !.look_ahead = tok,
                 !.events = Append(@, [event |-> "on_token", token |-> tok]),
                 !.pc = "on_token"]

\* a call whose lexer position is a variable shared with the first call
run_lex_shared_position(r) ==
  IF ~(Max(r.current_pos, current_pos) <= Len(r.str))
  THEN [r EXCEPT !.result = [stack |-> r.stack, last_token |-> EOF_STRING],
                 !.pc = "done"]
  ELSE run_lexed([r EXCEPT !.current_pos = Max(@, current_pos)],
                 parser_next_token(r.str, Max(r.current_pos, current_pos), dfa))

\* parse_string (parser.ts:259-278 and 306-309): an iteration with no
\* look-ahead
run_lex(r) ==
  IF ~(r.current_pos <= Len(r.str))
  THEN [r EXCEPT !.result = [stack |-> r.stack, last_token |-> EOF_STRING],
                 !.pc = "done"]
  ELSE run_lexed(r, parser_next_token(r.str, r.current_pos, dfa))

\* parse_string (parser.ts:280-304): an iteration with a look-ahead, up to
\* the call of the observer
run_parse(r, current_state, step) ==
  CASE step.step = "ACCEPT" ->
         [r EXCEPT !.result = accepted_tree(step.stack),
                   !.stack = Pop(step.stack), !.pc = "done"]
    [] step.step = "ERROR" ->
         [r EXCEPT !.result = [last_token |-> r.look_ahead, stack |-> step.stack],
                   !.stack = step.stack, !.pc = "done"]
    [] step.step = "REDUCE" ->
         [r EXCEPT !.stack = step.stack,
                   !.events = Append(@, [event |-> "on_reduce",
                                         state |-> current_state,
                                         token |-> r.look_ahead,
                                         stack |-> step.stack]),
                   !.pc = "on_reduce"]
    [] step.step = "SHIFT" ->
         [r EXCEPT !.stack = step.stack,
                   !.events = Append(@, [event |-> "on_shift",
                                         state |-> current_state,
                                         token |-> r.look_ahead,
                                         stack |-> step.stack]),
                   !.pc = "on_shift"]
    [] step.step = "THROW" ->
         [r EXCEPT !.result = [error |-> step.error],
                   !.stack = step.stack, !.pc = "done"]

\* parse_string (parser.ts:259-309): the call runs on to its next observer
\* call or return, or is resumed by the observer it waits for
run_step(r) ==
  IF r.pc = "loop"
  THEN IF r.look_ahead = undefined
       THEN run_lex(r)
       ELSE run_parse(r, Top(r.stack).current_state,
                      LALR_step(r.look_ahead, r.stack))
  ELSE IF r.pc = "on_shift"
  THEN [r EXCEPT !.look_ahead = undefined, !.pc = "loop"]
  ELSE IF r.pc \in {"on_token", "on_reduce"}
  THEN [r EXCEPT !.pc = "loop"]
  ELSE r

\* parse_string run on its own from r until it returns
RECURSIVE run_to_end(_)
run_to_end(r) == IF r.pc = "done" THEN r ELSE run_to_end(run_step(r))

run_alone(s) == run_to_end(start_run(s))

\* a step of the second call that also assigns the look_ahead of the first
OtherStep_shared_look_ahead ==
  /\ other.pc # "done"
  /\ other' = run_step(other)
  /\ look_ahead' = other'.look_ahead
  /\ UNCHANGED <<str, pc, current_pos, stack, result, lexed, events>>
  /\ UNCHANGED <<lex_vars, more_vars>>

\* a step of the second call of parse_string: it touches its own locals only
\* (parser.ts:249-310 assigns no module-level variable and no table)
OtherStep ==
  /\ other.pc # "done"
  /\ other' = run_step(other)
  /\ UNCHANGED <<str, parse_vars, lex_vars, more_vars>>

InitTwo ==
  /\ str \in InputsOf(TwoWords, MaxTwoWords)
  /\ pc = "loop"
  /\ current_pos = 0
  /\ look_ahead = undefined
  /\ stack = LALR_setup(lalr)
  /\ result = undefined
  /\ lexed = <<>>
  /\ events = <<>>
  /\ LexIdle
  /\ MoreIdle
  /\ other \in { start_run(s) : s \in {str} \cup OtherInputs }

NextTwo ==
  \/ LexToken
  \/ ParseStep
  \/ TokenObserved
  \/ ReduceObserved
  \/ ShiftObserved
  \/ OtherStep

SpecTwo == InitTwo /\ [][NextTwo]_vars

(***************************************************************************)
(* parse_string on other tables: the lalr argument is one of the states    *)
(* that state 0 does not lead to.                                          *)
(***************************************************************************)
\* the inputs have at most MaxTabWords characters a and v, the stack at most
\* MaxTabStack items when a step is made
MaxTabWords == 4
MaxTabStack == 6
TabWords == { <<"a">>, <<"v">> }
TabStates == { 10, 15, 16, 17, 18, 19, 20 }

InitTab ==
  /\ str \in InputsOf(TabWords, MaxTabWords)
  /\ pc = "loop"
  /\ current_pos = 0
  /\ look_ahead = undefined
  /\ \E initial \in TabStates : stack = LALR_setup(initial)
  /\ result = undefined
  /\ lexed = <<>>
  /\ events = <<>>
  /\ LexIdle
  /\ OtherIdle
  /\ MoreIdle

NextTab ==
  \/ LexToken
  \/ Len(stack) <= MaxTabStack /\ ParseStep
  \/ TokenObserved
  \/ ReduceObserved
  \/ ShiftObserved

SpecTab == InitTab /\ [][NextTab]_vars

\* parse_string goes on while it has not returned: its loop has no wait but
\* the awaits of the observers, which return
SpecTabLive == InitTab /\ [][NextTab]_vars /\ WF_vars(NextTab)

(***************************************************************************)
(* lexer.ts: class CharRangeSet                                            *)
(***************************************************************************)
\* the sets have at most MaxRanges ranges
MaxRanges == 2

\* the characters contains is asked about, with their UTF-16 code units
utf16 == ("a" :> 97) @@ ("b" :> 98) @@ ("c" :> 99) @@ ("d" :> 100) @@ ("e" :> 101)

\* Buffer.from(value, "utf16le").readUint16LE() (lexer.ts:136)
code_point_of(v) == utf16[v] % 65536

\* interface CharRange and add_range (lexer.ts:110-113 and 123-128): any two
\* numbers make a range
CharRange == [start : {utf16[c] : c \in DOMAIN utf16},
              end : {utf16[c] : c \in DOMAIN utf16}]

\* a range test that leaves the end of the range out
range_contains_half_open(range, code_point) ==
  code_point >= range.start /\ code_point < range.end

\* the test of one range (lexer.ts:138-139)
range_contains(range, code_point) ==
  code_point >= range.start /\ code_point <= range.end

\* the loop over the ranges (lexer.ts:137-143)
RECURSIVE contains_loop(_, _, _)
contains_loop(rs, code_point, k) ==
  IF k > Len(rs) THEN FALSE
  ELSE IF range_contains(rs[k], code_point) THEN TRUE
  ELSE contains_loop(rs, code_point, k + 1)

\* CharRangeSet.contains (lexer.ts:135-144)
contains(rs, v) == contains_loop(rs, code_point_of(v), 1)

Contains ==
  /\ contained = undefined
  /\ value # ""
  /\ contained' = [returned |-> contains(ranges, value)]
  /\ UNCHANGED <<str, parse_vars, lex_vars, other, dbg, file, loader, ranges, value>>

InitRange ==
  /\ str = <<>>
  /\ ParseIdle
  /\ LexIdle
  /\ OtherIdle
  /\ dbg = undefined
  /\ file = undefined
  /\ loader = undefined
  /\ ranges \in UNION { [1..n -> CharRange] : n \in 0..MaxRanges }
  /\ value \in DOMAIN utf16
  /\ contained = undefined

NextRange == Contains

SpecRange == InitRange /\ [][NextRange]_vars

(***************************************************************************)
(* The loader: GTFileReader and load_grammar_tables.  A file is its header *)
(* string and its records; a record is its type byte and the fields behind *)
(* it, so the number of entries start_record reads is 1 + Len(fields).     *)
(* A field is a record with one component named after its type byte.       *)
(***************************************************************************)
IntField(n) == [I |-> n]
StringField(s) == [S |-> s]
BoolField(b) == [B |-> b]
EmptyField == [E |-> TRUE]
Record(type, fields) == [type |-> type, fields |-> fields]

\* read_int, read_string, read_bool, skip_field (part_005:45-115): the fields
\* from position from on have the types of layout, "*" a skipped field
layout_ok(fs, from, layout) ==
  /\ from + Len(layout) - 1 <= Len(fs)
  /\ \A k \in DOMAIN layout :
       layout[k] = "*" \/ layout[k] \in DOMAIN fs[from + k - 1]

\* the loops "while (!file.eof() && !file.record_finished())": the rest of the
\* record is read unit by unit and has to end with a unit
RECURSIVE units_ok(_, _, _)
units_ok(fs, from, unit) ==
  IF from > Len(fs) THEN TRUE
  ELSE layout_ok(fs, from, unit) /\ units_ok(fs, from + Len(unit), unit)

units(fs, from, n) ==
  [k \in 1..((Len(fs) - from + 1) \div n) |->
     SubSeq(fs, from + (k - 1) * n, from + k * n - 1)]

\* a JavaScript array with holes: arr[i] = v, new Array(n) and arr[i]
assign(arr, i, v) ==
  IF i < Len(arr) THEN [arr EXCEPT ![i + 1] = v]
  ELSE arr \o [k \in 1..(i - Len(arr)) |-> undefined] \o <<v>>

new_array(n) == [k \in 1..n |-> undefined]

at(arr, i) == IF i < Len(arr) THEN arr[i + 1] ELSE undefined

type_error == [error |-> "Unexpected data type"]

\* function parse_charset (part_005:205-210)
parse_charset(l, fs) ==
  IF layout_ok(fs, 1, <<"I", "S">>)
  THEN [l |-> [l EXCEPT !.charsets =
                 assign(@, fs[1].I, [chars |-> {fs[2].S[k] : k \in DOMAIN fs[2].S}])],
        used |-> 2]
  ELSE type_error

\* function parse_dfa_state (part_005:213-238)
parse_dfa_state(l, fs) ==
  IF layout_ok(fs, 1, <<"I", "B", "I", "*">>) /\ units_ok(fs, 5, <<"I", "I", "*">>)
  THEN [l |-> [l EXCEPT !.dfa_states =
                 assign(@, fs[1].I,
                        [result |-> IF fs[2].B THEN [index |-> fs[3].I] ELSE undefined,
                         edges |-> [k \in DOMAIN units(fs, 5, 3) |->
                                      [label |-> units(fs, 5, 3)[k][1].I,
                                       target |-> units(fs, 5, 3)[k][2].I]]])],
        used |-> Len(fs)]
  ELSE type_error

\* function parse_lr_state (part_005:241-261)
parse_lr_state(l, fs) ==
  IF layout_ok(fs, 1, <<"I", "*">>) /\ units_ok(fs, 3, <<"I", "I", "I", "*">>)
  THEN [l |-> [l EXCEPT !.lr_states =
                 assign(@, fs[1].I,
                        [transitions |->
                           [k \in DOMAIN units(fs, 3, 4) |->
                              [look_ahead_symbol |-> units(fs, 3, 4)[k][1].I,
                               action_type |-> units(fs, 3, 4)[k][2].I,
                               value |-> units(fs, 3, 4)[k][3].I]]])],
        used |-> Len(fs)]
  ELSE type_error

\* function parse_parameter (part_005:263-270)
parse_parameter(l, fs) ==
  IF layout_ok(fs, 1, <<"S", "S", "S", "S", "B", "I">>)
  THEN [l |-> l, used |-> 6]
  ELSE type_error

\* function parse_reduction (part_005:273-290)
parse_reduction(l, fs) ==
  IF layout_ok(fs, 1, <<"I", "I", "*">>) /\ units_ok(fs, 4, <<"I">>)
  THEN [l |-> [l EXCEPT !.reductions =
                 assign(@, fs[1].I,
                        [produces |-> fs[2].I,
                         consumes |-> [k \in DOMAIN units(fs, 4, 1) |->
                                         units(fs, 4, 1)[k][1].I]])],
        used |-> Len(fs)]
  ELSE type_error

\* function parse_symbol (part_005:293-302)
parse_symbol(l, fs) ==
  IF layout_ok(fs, 1, <<"I", "S", "I">>)
  THEN [l |-> [l EXCEPT !.symbols =
                 assign(@, fs[1].I, [name |-> fs[2].S, type |-> fs[3].I])],
        used |-> 3]
  ELSE type_error

\* function parse_char_ranges (part_005:305-320)
parse_char_ranges(l, fs) ==
  IF /\ layout_ok(fs, 1, <<"I", "I", "I", "*">>)
     /\ layout_ok(fs, 5, [k \in 1..(2 * fs[3].I) |-> "I"])
  THEN [l |-> [l EXCEPT !.charsets =
                 assign(@, fs[1].I,
                        [ranges |-> [k \in 1..fs[3].I |->
                                       [start |-> fs[3 + 2 * k].I,
                                        end |-> fs[4 + 2 * k].I]]])],
        used |-> 4 + 2 * fs[3].I]
  ELSE type_error

\* function parse_group (part_005:322-350)
parse_group(l, fs) ==
  IF /\ layout_ok(fs, 1, <<"I", "S", "I", "I", "I", "I", "I", "*", "I">>)
     /\ layout_ok(fs, 10, [k \in 1..fs[9].I |-> "I"])
  THEN [l |-> [l EXCEPT !.parsed_groups =
                 assign(@, fs[1].I,
                        [name |-> fs[2].S,
                         symbol |-> fs[3].I,
                         start_symbol |-> fs[4].I,
                         end_symbol |-> fs[5].I,
                         advance_mode |-> IF fs[6].I = 1 THEN "Char" ELSE "Token",
                         ending_mode |-> IF fs[7].I = 1 THEN "Closed" ELSE "Open",
                         nestable_groups |-> [k \in 1..fs[9].I |-> fs[9 + k].I]])],
        used |-> 9 + fs[9].I]
  ELSE type_error

\* function parse_property (part_005:352-357)
parse_property(l, fs) ==
  IF layout_ok(fs, 1, <<"*", "S", "S">>)
  THEN [l |-> l, used |-> 3]
  ELSE type_error

\* load_grammar_tables (part_005:556-563): the record INITIALSTATES
parse_initial_states(l, fs) ==
  IF layout_ok(fs, 1, <<"I", "I">>)
  THEN [l |-> [l EXCEPT !.dfa_init_state = fs[1].I, !.lr_init_state = fs[2].I],
        used |-> 2]
  ELSE type_error

\* load_grammar_tables (part_005:573-590): the records COUNTS and COUNTS_V5
parse_counts(l, fs) ==
  IF layout_ok(fs, 1, <<"I", "I", "I", "I", "I">>)
       /\ (l.version = "5" => layout_ok(fs, 6, <<"I">>))
  THEN [l |-> [l EXCEPT !.symbols = new_array(fs[1].I),
                        !.charsets = new_array(fs[2].I),
                        !.reductions = new_array(fs[3].I),
                        !.dfa_states = new_array(fs[4].I),
                        !.lr_states = new_array(fs[5].I),
                        !.parsed_groups = IF l.version = "5"
                                          THEN new_array(fs[6].I) ELSE @],
        used |-> IF l.version = "5" THEN 6 ELSE 5]
  ELSE type_error

\* load_grammar_tables (part_005:534-605): the switch over the type of the
\* record; a type without a case reads nothing
parse_record(l, rec) ==
  CASE rec.type = "C" -> parse_charset(l, rec.fields)
    [] rec.type = "D" -> parse_dfa_state(l, rec.fields)
    [] rec.type = "I" -> parse_initial_states(l, rec.fields)
    [] rec.type = "L" -> parse_lr_state(l, rec.fields)
    [] rec.type = "P" -> parse_parameter(l, rec.fields)
    [] rec.type = "R" -> parse_reduction(l, rec.fields)
    [] rec.type = "S" -> parse_symbol(l, rec.fields)
    [] rec.type \in {"T", "t"} -> parse_counts(l, rec.fields)
    [] rec.type = "c" -> parse_char_ranges(l, rec.fields)
    [] rec.type = "g" -> parse_group(l, rec.fields)
    [] rec.type = "n" -> [l |-> l, used |-> Len(rec.fields)]
    [] rec.type = "p" -> parse_property(l, rec.fields)
    [] OTHER -> [l |-> l, used |-> 0]

thrown(message) == [error |-> message]

\* Array.prototype.find: the holes of the array are visited as undefined, on
\* which the callbacks of build_groups throw a TypeError
find(arr, P(_)) ==
  LET hits == {k \in DOMAIN arr : arr[k] = undefined \/ P(arr[k])}
      first == CHOOSE k \in hits : \A j \in hits : k <= j
  IN  IF hits = {} THEN [none |-> TRUE]
      ELSE IF arr[first] = undefined THEN thrown("TypeError")
      ELSE [found |-> first - 1]

\* a symbol as another object refers to it: its name and type, or undefined
symbol_ref(syms, i) ==
  IF at(syms, i) = undefined THEN undefined
  ELSE [name |-> at(syms, i).name, type |-> at(syms, i).type]

\* symbol.group = group
set_group(syms, i, group) ==
  [syms EXCEPT ![i + 1] = [name |-> @.name, type |-> @.type, group |-> group]]

\* build_groups (part_005:448-461): the groups of the g records
RECURSIVE link_groups(_, _, _)
link_groups(parsed_groups, syms, k) ==
  IF k > Len(parsed_groups) THEN [symbols |-> syms]
  ELSE IF parsed_groups[k] = undefined THEN thrown("TypeError")
  ELSE IF \/ \E n \in DOMAIN parsed_groups[k].nestable_groups :
                at(parsed_groups, parsed_groups[k].nestable_groups[n]) = undefined
          \/ at(syms, parsed_groups[k].start_symbol) = undefined
          \/ at(syms, parsed_groups[k].end_symbol) = undefined
  THEN thrown("TypeError")
  ELSE link_groups(
         parsed_groups,
         set_group(
           set_group(syms, parsed_groups[k].start_symbol,
                     [name |-> parsed_groups[k].name,
                      symbol |-> symbol_ref(syms, parsed_groups[k].symbol),
                      start_symbol |-> parsed_groups[k].start_symbol,
                      end_symbol |-> parsed_groups[k].end_symbol,
                      advance_mode |-> parsed_groups[k].advance_mode,
                      ending_mode |-> parsed_groups[k].ending_mode,
                      nestable_groups |->
                        {at(parsed_groups, parsed_groups[k].nestable_groups[n]).name :
                           n \in DOMAIN parsed_groups[k].nestable_groups}]),
           parsed_groups[k].end_symbol,
           [name |-> parsed_groups[k].name,
            symbol |-> symbol_ref(syms, parsed_groups[k].symbol),
            start_symbol |-> parsed_groups[k].start_symbol,
            end_symbol |-> parsed_groups[k].end_symbol,
            advance_mode |-> parsed_groups[k].advance_mode,
            ending_mode |-> parsed_groups[k].ending_mode,
            nestable_groups |->
              {at(parsed_groups, parsed_groups[k].nestable_groups[n]).name :
                 n \in DOMAIN parsed_groups[k].nestable_groups}]),
         k + 1)

is_group_start(symbol) == symbol.type = GROUP_START
is_group_end(symbol) == symbol.type = GROUP_END
is_comment_line(symbol) == symbol.type = COMMENT_LINE
is_new_line(symbol) == toLowerCase(symbol.name) = "newline"
is_comment(symbol) == toLowerCase(symbol.name) = "comment"

\* build_groups (part_005:469-476): the symbol of the comment groups
comment_symbol_of(syms) ==
  IF "found" \in DOMAIN find(syms, is_comment)
  THEN symbol_ref(syms, find(syms, is_comment).found)
  ELSE [name |-> "Comment", type |-> SKIP_SYMBOLS]

\* build_groups (part_005:478-491): the block comment of a version 1 grammar
block_group(syms, comment_start, comment_end) ==
  [name |-> "Comment Block", symbol |-> comment_symbol_of(syms),
   start_symbol |-> comment_start, end_symbol |-> comment_end,
   advance_mode |-> "Char", ending_mode |-> "Closed", nestable_groups |-> {}]

\* build_groups (part_005:492-503): the line comment of a version 1 grammar
line_group(syms, line_comment, new_line) ==
  [name |-> "Comment Block", symbol |-> comment_symbol_of(syms),
   start_symbol |-> line_comment, end_symbol |-> new_line,
   advance_mode |-> "Char", ending_mode |-> "Open", nestable_groups |-> {}]

\* build_groups (part_005:478-491)
with_block_group(syms, comment_start, comment_end) ==
  IF "found" \in DOMAIN comment_start /\ "found" \in DOMAIN comment_end
  THEN set_group(set_group(syms, comment_start.found,
                           block_group(syms, comment_start.found, comment_end.found)),
                 comment_end.found,
                 block_group(syms, comment_start.found, comment_end.found))
  ELSE syms

\* build_groups (part_005:492-508); orig is the array the groups refer to
with_line_group(syms, orig, line_comment, new_line) ==
  IF "found" \in DOMAIN line_comment /\ "found" \in DOMAIN new_line
  THEN set_group(
         [set_group(syms, line_comment.found,
                    line_group(orig, line_comment.found, new_line.found))
            EXCEPT ![line_comment.found + 1].type = GROUP_START],
         new_line.found,
         line_group(orig, line_comment.found, new_line.found))
  ELSE syms

\* build_groups (part_005:463-509): the comment groups of a version 1 grammar
comment_groups(syms) ==
  IF \E r \in {find(syms, is_group_start), find(syms, is_group_end),
               find(syms, is_comment_line), find(syms, is_new_line),
               find(syms, is_comment)} : "error" \in DOMAIN r
  THEN thrown("TypeError")
  ELSE [symbols |->
          with_line_group(
            with_block_group(syms, find(syms, is_group_start), find(syms, is_group_end)),
            syms, find(syms, is_comment_line), find(syms, is_new_line))]

\* the comment groups made for every version
build_groups_any_version(parsed_groups, syms, is_v1) ==
  IF "error" \in DOMAIN link_groups(parsed_groups, syms, 1)
  THEN link_groups(parsed_groups, syms, 1)
  ELSE comment_groups(link_groups(parsed_groups, syms, 1).symbols)

\* function build_groups (part_005:447-511): the symbols with their groups
build_groups(parsed_groups, syms, is_v1) ==
  IF "error" \in DOMAIN link_groups(parsed_groups, syms, 1)
  THEN link_groups(parsed_groups, syms, 1)
  ELSE IF is_v1
  THEN comment_groups(link_groups(parsed_groups, syms, 1).symbols)
  ELSE link_groups(parsed_groups, syms, 1)

\* load_grammar_tables (part_005:609-614): reductions.map, which keeps holes
build_rules(reductions, syms) ==
  [k \in DOMAIN reductions |->
     IF reductions[k] = undefined THEN undefined
     ELSE [produces |-> symbol_ref(syms, reductions[k].produces),
           consumes |-> [c \in DOMAIN reductions[k].consumes |->
                           symbol_ref(syms, reductions[k].consumes[c])]]]

\* the states recursive_helper visits from a set of states; next[i + 1] are
\* the states the record of state i refers to
RECURSIVE reach(_, _)
reach(next, seen) ==
  IF seen \cup UNION {next[i + 1] : i \in {j \in seen : j < Len(next)}} = seen
  THEN seen
  ELSE reach(next, seen \cup UNION {next[i + 1] : i \in {j \in seen : j < Len(next)}})

dfa_next(states) ==
  [k \in DOMAIN states |->
     IF states[k] = undefined THEN {}
     ELSE {states[k].edges[e].target : e \in DOMAIN states[k].edges}]

\* function build_dfa (part_005:360-391): the states linked from initial, each
\* with its index, its accepting symbol and its edges in the order of the record
build_dfa(initial, states, charsets, syms) ==
  IF \E i \in reach(dfa_next(states), {initial}) : at(states, i) = undefined
  THEN thrown("TypeError")
  ELSE [initial |-> initial,
        states |->
          [i \in reach(dfa_next(states), {initial}) |->
             [index |-> i,
              result |-> IF at(states, i).result = undefined THEN undefined
                         ELSE symbol_ref(syms, at(states, i).result.index),
              edges |-> [e \in DOMAIN at(states, i).edges |->
                           [label |-> at(charsets, at(states, i).edges[e].label),
                            target |-> at(states, i).edges[e].target]]]]]

lr_next(states) ==
  [k \in DOMAIN states |->
     IF states[k] = undefined THEN {}
     ELSE {states[k].transitions[t].value :
             t \in {u \in DOMAIN states[k].transitions :
                      states[k].transitions[u].action_type \in {GOTO, SHIFT}}}]

\* build_lr (part_005:411-436): the edge of one transition
lr_edge(transition, rls) ==
  CASE transition.action_type = ACCEPT -> Accept
    [] transition.action_type = REDUCE ->
         [type |-> REDUCE, target |-> at(rls, transition.value)]
    [] OTHER -> [type |-> SHIFT, target |-> [state |-> transition.value]]

\* build_lr (part_005:437-438): the edges map, a later transition for the same
\* symbol name replacing an earlier one
lr_edges(transitions, rls, syms) ==
  [n \in {at(syms, transitions[t].look_ahead_symbol).name : t \in DOMAIN transitions} |->
     lr_edge(transitions[CHOOSE t \in DOMAIN transitions :
                           /\ at(syms, transitions[t].look_ahead_symbol).name = n
                           /\ \A u \in DOMAIN transitions :
                                at(syms, transitions[u].look_ahead_symbol).name = n
                                  => u <= t],
             rls)]

\* function build_lr (part_005:393-445)
build_lr(initial, states, rls, syms) ==
  IF \E i \in reach(lr_next(states), {initial}) : at(states, i) = undefined
  THEN thrown("TypeError")
  ELSE IF \E i \in reach(lr_next(states), {initial}) :
            \E t \in DOMAIN at(states, i).transitions :
              at(states, i).transitions[t].action_type \notin {SHIFT, REDUCE, GOTO, ACCEPT}
  THEN thrown("Action type not supported")
  ELSE IF \E i \in reach(lr_next(states), {initial}) :
            \E t \in DOMAIN at(states, i).transitions :
              at(syms, at(states, i).transitions[t].look_ahead_symbol) = undefined
  THEN thrown("TypeError")
  ELSE [initial |-> initial,
        states |->
          [i \in reach(lr_next(states), {initial}) |->
             [index |-> i,
              edges |-> lr_edges(at(states, i).transitions, rls, syms)]]]

\* the objects of build_dfa and build_lr. recursive_helper (part_005:366-388,
\* 400-442) with its map from index to object: st.map is dfa_map or lr_map,
\* st.heap the objects in the order of their creation, each with its index
\* and the objects its edges were given as targets; targets[i + 1] are the
\* indices that the record of state i names, in the order of the record
no_objects == [map |-> [i \in {} |-> 0], heap |-> <<>>]

\* an edge that leads to the object made first, whatever index it names
map_get_initial(st, current) == 1

\* dfa_map.get(current)!, lr_map.get(current)!
map_get(st, current) == st.map[current]

RECURSIVE recursive_helper(_, _, _)
RECURSIVE link_edges(_, _, _, _, _)
\* result.edges.push({label, target: recursive_helper(edge.target)}) with
\* linked what recursive_helper returned
edge_linked(current, targets, object, e, linked) ==
  link_edges(current, targets, object, e + 1,
             [linked.st EXCEPT !.heap[object].edges = Append(@, linked.object)])

\* the loop over the edges of the record, from the edge e
link_edges(current, targets, object, e, st) ==
  IF e > Len(targets[current + 1])
  THEN [st |-> st, object |-> object]
  ELSE edge_linked(current, targets, object, e,
                   recursive_helper(targets[current + 1][e], targets, st))

recursive_helper(current, targets, st) ==
  IF current \in DOMAIN st.map
  THEN [st |-> st, object |-> map_get(st, current)]
  ELSE link_edges(current, targets, Len(st.heap) + 1, 1,
                  [map |-> st.map @@ (current :> Len(st.heap) + 1),
                   heap |-> Append(st.heap, [index |-> current, edges |-> <<>>])])

\* the targets of the edges of the D records and of the shift and goto
\* transitions of the L records
dfa_targets(states) ==
  [k \in DOMAIN states |->
     IF states[k] = undefined THEN <<>>
     ELSE [e \in DOMAIN states[k].edges |-> states[k].edges[e].target]]

RECURSIVE shift_targets(_, _)
shift_targets(transitions, t) ==
  IF t > Len(transitions) THEN <<>>
  ELSE IF transitions[t].action_type \in {GOTO, SHIFT}
  THEN <<transitions[t].value>> \o shift_targets(transitions, t + 1)
  ELSE shift_targets(transitions, t + 1)

lr_targets(states) ==
  [k \in DOMAIN states |->
     IF states[k] = undefined THEN <<>>
     ELSE shift_targets(states[k].transitions, 1)]

\* load_grammar_tables (part_005:607-623): what follows the loop over the
\* records; symbols are the symbols as build_groups leaves them
build_tables(l, linked) ==
  IF "error" \in DOMAIN linked THEN linked
  ELSE IF "error" \in DOMAIN build_dfa(l.dfa_init_state, l.dfa_states, l.charsets,
                                       linked.symbols)
  THEN build_dfa(l.dfa_init_state, l.dfa_states, l.charsets, linked.symbols)
  ELSE IF "error" \in DOMAIN build_lr(l.lr_init_state, l.lr_states,
                                      build_rules(l.reductions, linked.symbols),
                                      linked.symbols)
  THEN build_lr(l.lr_init_state, l.lr_states,
                build_rules(l.reductions, linked.symbols), linked.symbols)
  ELSE [dfa |-> build_dfa(l.dfa_init_state, l.dfa_states, l.charsets, linked.symbols),
        lalr |-> build_lr(l.lr_init_state, l.lr_states,
                          build_rules(l.reductions, linked.symbols), linked.symbols),
        rules |-> build_rules(l.reductions, linked.symbols),
        symbols |-> linked.symbols,
        dfa_objects |-> recursive_helper(l.dfa_init_state, dfa_targets(l.dfa_states),
                                         no_objects).st,
        lr_objects |-> recursive_helper(l.lr_init_state, lr_targets(l.lr_states),
                                        no_objects).st]

\* the first part of the magic string, and the magic strings of the files: a
\* string is the sequence of its parts, one character each except MAGIC
MAGIC == "GOLD Parser Tables/v"

Headers ==
  { <<MAGIC, "1", ".", "0">>, <<MAGIC, "5", ".", "0">>, <<MAGIC, "9", ".", "0">>,
    <<"x", MAGIC, "1", ".", "0">>, <<MAGIC, "1">> }

Digits == {"0", "1", "2", "3", "4", "5", "6", "7", "8", "9"}

\* version_str.match(/GOLD Parser Tables\/v(\d).0/) (part_005:515): the places
\* in the string where the expression matches
version_matches(h) ==
  {i \in DOMAIN h : /\ h[i] = MAGIC
                    /\ i + 3 <= Len(h)
                    /\ h[i + 1] \in Digits
                    /\ h[i + 3] = "0"}

\* version_match[1] of the leftmost match
version_of(h) ==
  h[(CHOOSE i \in version_matches(h) : \A j \in version_matches(h) : i <= j) + 1]

\* the records of a small grammar: two symbols, a character set, a DFA of two
\* states, a rule and two LALR states
SymbolRecord(i, name, type) ==
  Record("S", <<IntField(i), StringField(name), IntField(type)>>)

CoreRecords ==
  << SymbolRecord(0, "a", TERMINAL),
     SymbolRecord(1, "Value", NON_TERMINAL),
     Record("C", <<IntField(0), StringField(<<"a">>)>>),
     Record("D", <<IntField(0), BoolField(FALSE), IntField(0), EmptyField,
                   IntField(0), IntField(1), EmptyField>>),
     Record("D", <<IntField(1), BoolField(TRUE), IntField(0), EmptyField>>),
     Record("R", <<IntField(0), IntField(1), EmptyField, IntField(0)>>),
     Record("L", <<IntField(0), EmptyField,
                   IntField(0), IntField(SHIFT), IntField(1), EmptyField>>),
     Record("L", <<IntField(1), EmptyField,
                   IntField(0), IntField(REDUCE), IntField(0), EmptyField>>) >>

\* the files have the records of the small grammar and behind them at most
\* MaxFileWords of the following groups of records
MaxFileWords == 2

FileWords ==
  { \* a line comment symbol and a newline symbol
    << SymbolRecord(2, "//", COMMENT_LINE), SymbolRecord(3, "NewLine", SKIP_SYMBOLS) >>,
    \* a block comment start and end symbol
    << SymbolRecord(4, "/*", GROUP_START), SymbolRecord(5, "*/", GROUP_END) >>,
    \* a record of a type that is no record type, alone and with a field
    << Record("X", <<>>) >>,
    << Record("X", <<IntField(0)>>) >>,
    \* DFA state 0 with an edge whose character set has no record
    << Record("D", <<IntField(0), BoolField(FALSE), IntField(0), EmptyField,
                     IntField(7), IntField(1), EmptyField>>) >>,
    \* DFA state 0 with an edge to a state that has no record
    << Record("D", <<IntField(0), BoolField(FALSE), IntField(0), EmptyField,
                     IntField(0), IntField(6), EmptyField>>) >>,
    \* DFA state 1 accepting a symbol that has no record
    << Record("D", <<IntField(1), BoolField(TRUE), IntField(9), EmptyField>>) >>,
    \* LALR state 1 reducing with a rule that has no record
    << Record("L", <<IntField(1), EmptyField,
                     IntField(0), IntField(REDUCE), IntField(5), EmptyField>>) >>,
    \* LALR state 0 with a look-ahead symbol that has no record
    << Record("L", <<IntField(0), EmptyField,
                     IntField(9), IntField(SHIFT), IntField(1), EmptyField>>) >>,
    \* rule 0 producing a symbol that has no record
    << Record("R", <<IntField(0), IntField(9), EmptyField, IntField(0)>>) >>,
    \* a group of a version 5 file
    << Record("g", <<IntField(0), StringField("Comment Line"), IntField(1),
                     IntField(0), IntField(1), IntField(1), IntField(0),
                     EmptyField, IntField(0)>>) >>,
    \* a group whose start symbol has no record
    << Record("g", <<IntField(0), StringField("Comment Line"), IntField(1),
                     IntField(9), IntField(1), IntField(1), IntField(0),
                     EmptyField, IntField(0)>>) >>,
    \* a property
    << Record("p", <<IntField(0), StringField("Name"), StringField("Equality")>>) >>,
    \* DFA state 1 with an edge to itself and an edge back to state 0, the
    \* records of its character set and of its symbol behind it
    << Record("D", <<IntField(1), BoolField(TRUE), IntField(2), EmptyField,
                     IntField(1), IntField(1), EmptyField,
                     IntField(1), IntField(0), EmptyField>>),
       Record("C", <<IntField(1), StringField(<<"b">>)>>),
       SymbolRecord(2, "b", TERMINAL) >>,
    \* LALR state 1 with a goto to itself, a shift back to state 0 and a
    \* reduction, the record of the rule behind it
    << Record("L", <<IntField(1), EmptyField,
                     IntField(1), IntField(GOTO), IntField(1), EmptyField,
                     IntField(0), IntField(SHIFT), IntField(0), EmptyField,
                     IntField(0), IntField(REDUCE), IntField(1), EmptyField>>),
       Record("R", <<IntField(1), IntField(1), EmptyField>>) >>
  }

\* load_grammar_tables (part_005:520-528): the locals before the first record
start_load ==
  [pc |-> "header", next |-> 1, version |-> "",
   charsets |-> <<>>, dfa_states |-> <<>>, dfa_init_state |-> 0,
   lr_states |-> <<>>, lr_init_state |-> 0, reductions |-> <<>>,
   parsed_groups |-> <<>>, symbols |-> <<>>,
   result |-> undefined, error |-> ""]

loader_fails(message) == loader' = [loader EXCEPT !.pc = "failed", !.error = message]

\* load_grammar_tables (part_005:514-519): the magic string
LoadHeader ==
  /\ loader # undefined
  /\ loader.pc = "header"
  /\ IF version_matches(file.header) = {}
     THEN loader_fails("Magic string not found in file")
     ELSE loader' = [loader EXCEPT !.version = version_of(file.header),
                                   !.pc = "records"]
  /\ UNCHANGED <<str, parse_vars, lex_vars, other, dbg, file, ranges, value, contained>>

\* load_grammar_tables (part_005:530-605): one iteration of the loop over the
\* records: start_record, the type byte, the fields and record_finished
LoadRecord ==
  /\ loader # undefined
  /\ loader.pc = "records"
  /\ loader.next <= Len(file.records)
  /\ IF "error" \in DOMAIN parse_record(loader, file.records[loader.next])
     THEN loader_fails(parse_record(loader, file.records[loader.next]).error)
     ELSE IF parse_record(loader, file.records[loader.next]).used
               # Len(file.records[loader.next].fields)
     THEN loader_fails("Incomplete record reading")
     ELSE loader' = [parse_record(loader, file.records[loader.next]).l
                       EXCEPT !.next = @ + 1]
  /\ UNCHANGED <<str, parse_vars, lex_vars, other, dbg, file, ranges, value, contained>>

\* load_grammar_tables (part_005:607-623): the end of the file is reached, the
\* tables are built
LoadBuild ==
  /\ loader # undefined
  /\ loader.pc = "records"
  /\ loader.next > Len(file.records)
  /\ IF "error" \in DOMAIN build_tables(loader,
                                        build_groups(loader.parsed_groups, loader.symbols,
                                                     loader.version = "1"))
     THEN loader_fails(build_tables(loader,
                                    build_groups(loader.parsed_groups, loader.symbols,
                                                 loader.version = "1")).error)
     ELSE loader' = [loader EXCEPT
                       !.pc = "done",
                       !.result = build_tables(loader,
                                               build_groups(loader.parsed_groups,
                                                            loader.symbols,
                                                            loader.version = "1"))]
  /\ UNCHANGED <<str, parse_vars, lex_vars, other, dbg, file, ranges, value, contained>>

InitLoad ==
  /\ str = <<>>
  /\ ParseIdle
  /\ LexIdle
  /\ OtherIdle
  /\ dbg = undefined
  /\ ranges = <<>>
  /\ value = ""
  /\ contained = undefined
  /\ file \in { [header |-> h, records |-> CoreRecords \o rs] :
                  h \in Headers, rs \in InputsOf(FileWords, MaxFileWords) }
  /\ loader = start_load

NextLoad ==
  \/ LoadHeader
  \/ LoadRecord
  \/ LoadBuild

SpecLoad == InitLoad /\ [][NextLoad]_vars

(***************************************************************************)
(* GTFileReader byte by byte.  In SpecRead, file is the reader: its data   *)
(* (the bytes of the buffer), its read_head and its remaining_records;     *)
(* loader is the place of load_grammar_tables in its loop over the         *)
(* records.  Between the record type and the check behind the switch a     *)
(* record handler may call any of the reads, in any order.                 *)
(***************************************************************************)
\* enum GrammarDataType (part_005:6-13): the character codes; BOOLEAN and STRING are
\* named BOOLEAN_TYPE and STRING_TYPE here
BOOLEAN_TYPE == 66
EMPTY == 69
INT == 73
STRING_TYPE == 83
BYTE == 98
MULTI == 77

\* the data behind the magic string is made of at most that many words
MaxReadWords == 3

\* Buffer.readUInt8, Buffer.readUInt16LE at the offset, out of range when the
\* buffer ends before
in_range(f, offset, bytes) == offset >= 0 /\ offset + bytes <= Len(f.data)

readUInt8(f, offset) == f.data[offset + 1]

readUInt16LE(f, offset) == f.data[offset + 1] + 256 * f.data[offset + 2]

range_error(f) == [file |-> f, error |-> "RangeError"]

unexpected(f) == [file |-> f, error |-> "Unexpected data type"]

returned(f, v) == [file |-> f, value |-> v]

\* GTFileReader.eof (part_005:29-31)
eof(f) == f.read_head >= Len(f.data)

\* read_raw_string (part_005:33-42): the offsets i the loop visits at which
\* it finds the terminator, before it has left the buffer
terminators(f) ==
  {i \in f.read_head..(Len(f.data) - 2) :
     /\ (i - f.read_head) % 2 = 0
     /\ readUInt16LE(f, i) = 0}

first_terminator(f) == CHOOSE i \in terminators(f) : \A j \in terminators(f) : i <= j

\* subarray(read_head, i).toString("utf16le"): the code units
utf16le(f, from, to) ==
  [k \in 1..((to - from) \div 2) |-> readUInt16LE(f, from + 2 * (k - 1))]

read_raw_string(f) ==
  IF terminators(f) # {}
  THEN returned([f EXCEPT !.read_head = first_terminator(f) + 2],
                utf16le(f, f.read_head, first_terminator(f)))
  ELSE IF f.read_head < Len(f.data) /\ (Len(f.data) - f.read_head) % 2 = 1
  THEN range_error(f)
  ELSE [file |-> f, error |-> "Not a string to read"]

\* next_type (part_005:44-47): readUInt8(this.read_head++)
next_type(f) ==
  IF in_range(f, f.read_head, 1)
  THEN returned([f EXCEPT !.read_head = @ + 1], readUInt8(f, f.read_head))
  ELSE range_error([f EXCEPT !.read_head = @ + 1])

\* a read that counts the field although it found another type
counted(f) == [f EXCEPT !.remaining_records = @ - 1]

\* --this.read_head of a read that found another type
put_back(f) == [f EXCEPT !.read_head = @ - 1]

\* a read that leaves the count of the fields as it is
field_kept(f) == f

\* --this.remaining_records
field_read(f) == [f EXCEPT !.remaining_records = @ - 1]

\* read_bool (part_005:49-57)
read_bool(f) ==
  IF "error" \in DOMAIN next_type(f) THEN next_type(f)
  ELSE IF next_type(f).value # BOOLEAN_TYPE THEN unexpected(put_back(next_type(f).file))
  ELSE IF "error" \in DOMAIN next_type(field_read(next_type(f).file))
  THEN next_type(field_read(next_type(f).file))
  ELSE returned(next_type(field_read(next_type(f).file)).file,
                next_type(field_read(next_type(f).file)).value # 0)

\* read_empty (part_005:59-66)
read_empty(f) ==
  IF "error" \in DOMAIN next_type(f) THEN next_type(f)
  ELSE IF next_type(f).value # EMPTY THEN unexpected(put_back(next_type(f).file))
  ELSE returned(field_read(next_type(f).file), undefined)

\* read_int (part_005:68-78)
read_int(f) ==
  IF "error" \in DOMAIN next_type(f) THEN next_type(f)
  ELSE IF next_type(f).value # INT THEN unexpected(put_back(next_type(f).file))
  ELSE IF ~in_range(f, f.read_head + 1, 2) THEN range_error(next_type(f).file)
  ELSE returned(field_read([f EXCEPT !.read_head = @ + 3]),
                readUInt16LE(f, f.read_head + 1))

\* read_string (part_005:80-88)
read_string(f) ==
  IF "error" \in DOMAIN next_type(f) THEN next_type(f)
  ELSE IF next_type(f).value # STRING_TYPE THEN unexpected(put_back(next_type(f).file))
  ELSE read_raw_string(field_read(next_type(f).file))

\* read_byte (part_005:90-98)
read_byte(f) ==
  IF "error" \in DOMAIN next_type(f) THEN next_type(f)
  ELSE IF next_type(f).value # BYTE THEN unexpected(put_back(next_type(f).file))
  ELSE next_type(field_read(next_type(f).file))

\* skip_field (part_005:100-122)
skip_field(f) ==
  IF "error" \in DOMAIN next_type(f) THEN next_type(f)
  ELSE CASE next_type(f).value = EMPTY ->
              returned(field_read(next_type(f).file), undefined)
         [] next_type(f).value \in {BOOLEAN_TYPE, BYTE} ->
              returned(field_read([f EXCEPT !.read_head = @ + 2]), undefined)
         [] next_type(f).value = INT ->
              returned(field_read([f EXCEPT !.read_head = @ + 3]), undefined)
         [] next_type(f).value = STRING_TYPE ->
              read_raw_string(field_read(next_type(f).file))
         [] OTHER ->
              [file |-> field_read(next_type(f).file),
               error |-> "Unknown data field type"]

\* start_record (part_005:124-133)
start_record(f) ==
  IF "error" \in DOMAIN next_type(f) THEN next_type(f)
  ELSE IF next_type(f).value # MULTI THEN unexpected(next_type(f).file)
  ELSE IF ~in_range(f, f.read_head + 1, 2) THEN range_error(next_type(f).file)
  ELSE returned([f EXCEPT !.read_head = @ + 3,
                          !.remaining_records = readUInt16LE(f, f.read_head + 1)],
                readUInt16LE(f, f.read_head + 1))

\* record_finished (part_005:135-140)
record_finished(f) ==
  IF f.remaining_records < 0
  THEN [file |-> f, error |-> "Overshot record"]
  ELSE returned(f, f.remaining_records = 0)

\* the magic string of a version 1 file in UTF-16LE with its terminator
MagicBytes ==
  <<71, 0, 79, 0, 76, 0, 68, 0, 32, 0, 80, 0, 97, 0, 114, 0, 115, 0, 101, 0,
    114, 0, 32, 0, 84, 0, 97, 0, 98, 0, 108, 0, 101, 0, 115, 0, 47, 0, 118, 0,
    49, 0, 46, 0, 48, 0, 0, 0>>

ReadWords ==
  { \* a record of one field, its type X
    <<MULTI, 1, 0, BYTE, 88>>,
    \* the start of a record of three fields and its type S, the code of STRING
    <<MULTI, 3, 0, BYTE, 83>>,
    \* the fields, some of them cut
    <<INT, 1, 0>>, <<INT, 1>>, <<BOOLEAN_TYPE, 1>>, <<EMPTY>>,
    <<STRING_TYPE, 97, 0, 0, 0>>, <<STRING_TYPE, 97, 0, 0>>, <<BYTE>> }

\* the call of the reader that load_grammar_tables or a record handler makes:
\* its name is kept, the reader is as the call leaves it, a throw ends the load
called(name, r, pc_then) ==
  /\ file' = r.file
  /\ loader' = IF "error" \in DOMAIN r
               THEN [loader EXCEPT !.pc = "failed", !.error = r.error, !.call = name]
               ELSE [loader EXCEPT !.pc = pc_then, !.call = name,
                                   !.fields = IF name = "start_record" THEN 0
                                              ELSE IF name = "record_finished" THEN @
                                              ELSE @ + 1,
                                   !.announced = IF name = "start_record"
                                                 THEN r.value ELSE @]
  /\ UNCHANGED <<str, parse_vars, lex_vars, other, dbg, ranges, value, contained>>

in_handler == loader.pc = "handler"

\* load_grammar_tables (part_005:530-531): while (!file.eof()) start_record()
StartRecord ==
  /\ loader.pc = "loop"
  /\ ~eof(file)
  /\ called("start_record", start_record(file), "type")

\* load_grammar_tables (part_005:532): the record type
ReadRecordType ==
  /\ loader.pc = "type"
  /\ called("read_byte", read_byte(file), "handler")

\* the reads of the record handlers (part_005:196-358, 541-542)
ReadBool == in_handler /\ called("read_bool", read_bool(file), "handler")

ReadEmpty == in_handler /\ called("read_empty", read_empty(file), "handler")

ReadInt == in_handler /\ called("read_int", read_int(file), "handler")

ReadString == in_handler /\ called("read_string", read_string(file), "handler")

SkipField == in_handler /\ called("skip_field", skip_field(file), "handler")

\* the loops of the handlers (part_005:202, 229, 250, 285):
\* while (!file.eof() && !file.record_finished())
HandlerLoop ==
  /\ in_handler
  /\ ~eof(file)
  /\ called("record_finished", record_finished(file), "handler")

\* load_grammar_tables (part_005:602-604): the check behind the switch
FinishRecord ==
  /\ in_handler
  /\ IF "error" \in DOMAIN record_finished(file)
     THEN called("record_finished", record_finished(file), "failed")
     ELSE IF ~record_finished(file).value
     THEN called("record_finished",
                 [file |-> file, error |-> "Incomplete record reading"], "failed")
     ELSE called("record_finished", record_finished(file), "loop")

\* load_grammar_tables (part_005:530): the loop ends with the buffer
EndOfFile ==
  /\ loader.pc = "loop"
  /\ eof(file)
  /\ loader' = [loader EXCEPT !.pc = "done", !.call = "eof"]
  /\ UNCHANGED <<str, parse_vars, lex_vars, other, dbg, file, ranges, value, contained>>

\* the reader when load_grammar_tables has read the magic string
InitRead ==
  /\ str = <<>>
  /\ ParseIdle
  /\ LexIdle
  /\ OtherIdle
  /\ dbg = undefined
  /\ ranges = <<>>
  /\ value = ""
  /\ contained = undefined
  /\ file \in { read_raw_string([data |-> MagicBytes \o bytes, read_head |-> 0,
                                 remaining_records |-> 0]).file :
                  bytes \in InputsOf(ReadWords, MaxReadWords) }
  /\ loader = [pc |-> "loop", call |-> "read_raw_string", error |-> "",
               fields |-> 0, announced |-> 0]

NextRead ==
  \/ StartRecord
  \/ ReadRecordType
  \/ ReadBool
  \/ ReadEmpty
  \/ ReadInt
  \/ ReadString
  \/ SkipField
  \/ HandlerLoop
  \/ FinishRecord
  \/ EndOfFile

SpecRead == InitRead /\ [][NextRead]_vars

(***************************************************************************)
(* The debugger: GRMDebugger.launch runs parse_string with its three       *)
(* handlers as observers.  A handler that pauses waits for the event       *)
(* "continue", which the requests resume, step, step_in, step_out and      *)
(* terminate emit.  The loop of parse_string and the handlers run without  *)
(* giving the event loop away, so a request is served while a handler      *)
(* waits or when the parse is over.  The session is one started from a     *)
(* table file with no GRM definition: this.parser is undefined and         *)
(* update_breakpoints leaves grammar_break_points empty.                    *)
(***************************************************************************)
\* the inputs of the debugged parses are made of at most that many words
MaxDebugWords == 4
DebugWords == { <<"a">>, <<"=", "=">>, <<"+">> }

\* interface Step, StepIn, StepOut (grm_debugger.ts:625-645)
Step(last_action) == [step_kind |-> "step", last_action |-> last_action]
StepIn(last_token) ==
  [step_kind |-> "step_in", last_action |-> "parser", last_token |-> last_token]
StepOut(last_stack) == [step_kind |-> "step_out", last_stack |-> last_stack]

is_step_out(step) == step.step_kind = "step_out"
is_step_in(step) == step.step_kind = "step_in"
is_step(step) == step.step_kind = "step"

\* the fields of a GRMDebugger after its constructor (grm_debugger.ts:849-886),
\* the number of events of parse_string whose handler has returned, the pause
\* a handler waits in and the last request with the pause it was made in
new_debugger(start_paused) ==
  [terminated |-> FALSE,
   grammar_break_points |-> <<>>,
   step_break |-> IF start_paused THEN Step("started") ELSE undefined,
   pause_reason |-> undefined,
   parser_stack |-> <<>>,
   tokens |-> <<>>,
   written |-> "",
   finished |-> FALSE,
   handled |-> 0,
   awaits |-> "no",
   request |-> undefined]

\* check_step (grm_debugger.ts:1020-1035)
check_step(previous_action, step_break) ==
  IF step_break.last_action = "started"
  THEN [reason |-> "entry", triggered_action |-> previous_action]
  ELSE IF step_break.last_action = previous_action
  THEN [reason |-> "step", triggered_action |-> previous_action,
        step_info |-> step_break]
  ELSE undefined

\* a step out that stops at every action of the parser
check_step_out_every_action(previous_action, step_break, parser_stack) ==
  IF previous_action = "lexer"
  THEN undefined
  ELSE [reason |-> "step", triggered_action |-> previous_action,
        step_info |-> step_break]

\* check_step_out (grm_debugger.ts:1037-1048)
check_step_out(previous_action, step_break, parser_stack) ==
  IF previous_action = "lexer" \/ Len(parser_stack) > step_break.last_stack
  THEN undefined
  ELSE [reason |-> "step", triggered_action |-> previous_action,
        step_info |-> step_break]

\* check_step_in (grm_debugger.ts:1050-1056)
check_step_in(previous_action, step_break) ==
  [reason |-> "step", triggered_action |-> previous_action,
   step_info |-> step_break]

\* step_break_required (grm_debugger.ts:1058-1074)
step_break_required(d, previous_action) ==
  IF d.step_break = undefined THEN undefined
  ELSE IF is_step(d.step_break)
  THEN check_step(previous_action, d.step_break)
  ELSE IF is_step_in(d.step_break)
  THEN check_step_in(previous_action, d.step_break)
  ELSE IF is_step_out(d.step_break)
  THEN check_step_out(previous_action, d.step_break, d.parser_stack)
  ELSE undefined

\* grammar_break_points.find (grm_debugger.ts:1084-1086, 1165-1167, 1211):
\* the first break point of the type with the name; the name is undefined for
\* the rule that find_rule and find_grm_rule do not find without this.parser
RECURSIVE find_break_point(_, _, _, _)
find_break_point(bps, type, name, k) ==
  IF k > Len(bps) THEN undefined
  ELSE IF bps[k].type = type /\ name # undefined /\ bps[k].name = name.name
  THEN bps[k]
  ELSE find_break_point(bps, type, name, k + 1)

\* symbol_name (grm_debugger.ts:659-663): the name in lower case without its
\* first and its last character
symbol_name(symbol) ==
  CASE symbol.name = "EOF" -> "o"
    [] symbol.name = "(EOF)" -> "eof"
    [] symbol.name = "Error" -> "rro"
    [] symbol.name = "Whitespace" -> "hitespac"
    [] symbol.name = "Comment" -> "ommen"
    [] symbol.name \in {"/*", "*/", "//", "=="} -> ""
    [] symbol.name = "NewLine" -> "ewlin"
    [] symbol.name = "Identifier" -> "dentifie"
    [] symbol.name = "Constant" -> "onstan"
    [] symbol.name = "Operator" -> "perato"
    [] symbol.name = "Equality" -> "qualit"
    [] symbol.name = "Expression" -> "xpressio"
    [] symbol.name = "Value" -> "alu"

\* pause_execution (grm_debugger.ts:986-990) up to its wait for "continue"
pause_execution(d, reason, awaits) ==
  [d EXCEPT !.pause_reason = reason, !.awaits = awaits]

\* the handler returns
handler_returns(d, n) == [d EXCEPT !.awaits = "no", !.handled = n]

\* token_lexed, parser_reduction, parser_shifted behind the break points
\* (grm_debugger.ts:1100-1109, 1180-1190, 1231-1241)
break_on_step(d, previous_action, n) ==
  IF step_break_required(d, previous_action) # undefined
  THEN pause_execution(d, step_break_required(d, previous_action), "step")
  ELSE handler_returns(d, n)

\* the check for break points (grm_debugger.ts:1083-1098, 1164-1178, 1205-1229)
break_on_point(d, type, name, previous_action, n) ==
  IF find_break_point(d.grammar_break_points, type, name, 1) # undefined
  THEN pause_execution(d,
         [reason |-> "breakpoint", triggered_action |-> previous_action,
          breakpoint |-> find_break_point(d.grammar_break_points, type, name, 1)],
         "breakpoint")
  ELSE break_on_step(d, previous_action, n)

\* update_parser_stack (grm_debugger.ts:1112-1118); open_rules is read by the
\* search for the break points of a shift and by the views only
update_parser_stack(d, stk) ==
  [d EXCEPT !.parser_stack = [i \in 1..(Len(stk) - 1) |-> stk[i + 1].parse_tree]]

\* the event "continue" wakes the handler that waits (grm_debugger.ts:1093-1097,
\* 1101-1106 and the like)
continue(d, previous_action, n) ==
  IF d.awaits = "no" THEN d
  ELSE IF d.terminated THEN handler_returns(d, n)
  ELSE IF d.awaits = "breakpoint" THEN break_on_step(d, previous_action, n)
  ELSE handler_returns(d, n)

\* the level of the event a handler was called for
level_of(ev) == IF ev.event = "on_token" THEN "lexer" ELSE "parser"

\* the handler of the last event has not run yet
observer_called == dbg.awaits = "no" /\ dbg.handled < Len(events)

\* the handler of the last event has returned
observer_returned == dbg.awaits = "no" /\ dbg.handled = Len(events)

\* token_lexed (grm_debugger.ts:1076-1110) up to its first wait or its return
token_lexed ==
  /\ pc = "on_token"
  /\ observer_called
  /\ dbg' = IF dbg.terminated
            THEN handler_returns(dbg, Len(events))
            ELSE break_on_point(
                   [dbg EXCEPT !.tokens = Append(@, events[Len(events)].token)],
                   "LEXER", [name |-> symbol_name(events[Len(events)].token.symbol)],
                   "lexer", Len(events))
  /\ UNCHANGED <<str, parse_vars, lex_vars, other, file, loader, ranges, value, contained>>

\* parser_reduction (grm_debugger.ts:1150-1191) up to its first wait or return
parser_reduction ==
  /\ pc = "on_reduce"
  /\ observer_called
  /\ dbg' = IF dbg.terminated
            THEN handler_returns(dbg, Len(events))
            ELSE break_on_point(update_parser_stack(dbg, events[Len(events)].stack),
                                "RULE", undefined, "parser", Len(events))
  /\ UNCHANGED <<str, parse_vars, lex_vars, other, file, loader, ranges, value, contained>>

\* parser_shifted (grm_debugger.ts:1193-1242) up to its first wait or return
parser_shifted ==
  /\ pc = "on_shift"
  /\ observer_called
  /\ dbg' = IF dbg.terminated
            THEN handler_returns(dbg, Len(events))
            ELSE break_on_point(update_parser_stack(dbg, events[Len(events)].stack),
                                "RULE", undefined, "parser", Len(events))
  /\ UNCHANGED <<str, parse_vars, lex_vars, other, file, loader, ranges, value, contained>>

\* a request of the debug adapter in a pause: the method sets the fields and
\* emits "continue", the handler that waits goes on
requested(d, name) ==
  continue([d EXCEPT !.request = [name |-> name,
                                  pause_reason |-> dbg.pause_reason,
                                  parser_stack |-> dbg.parser_stack,
                                  event |-> Len(events)]],
           level_of(events[Len(events)]), Len(events))

paused == dbg.awaits # "no"

debug_unchanged ==
  UNCHANGED <<str, parse_vars, lex_vars, other, file, loader, ranges, value, contained>>

\* resume (grm_debugger.ts:1585-1588)
resume ==
  /\ paused
  /\ dbg' = requested([dbg EXCEPT !.step_break = undefined], "resume")
  /\ debug_unchanged

\* step (grm_debugger.ts:1590-1598)
step_request(d) ==
  IF d.pause_reason.triggered_action # "finish"
  THEN [d EXCEPT !.step_break = Step(d.pause_reason.triggered_action)]
  ELSE d

step ==
  /\ paused
  /\ dbg' = requested(step_request(dbg), "step")
  /\ debug_unchanged

\* step_in (grm_debugger.ts:1600-1611)
step_in ==
  /\ paused
  /\ dbg' = requested(
              IF dbg.pause_reason.triggered_action = "lexer"
              THEN step_request(dbg)
              ELSE [dbg EXCEPT !.step_break =
                      StepIn(IF dbg.tokens = <<>> THEN undefined
                             ELSE dbg.tokens[Len(dbg.tokens)])],
              "step_in")
  /\ debug_unchanged

\* step_out (grm_debugger.ts:1613-1621)
step_out ==
  /\ paused
  /\ dbg' = requested(
              [dbg EXCEPT !.step_break =
                 StepOut(IF dbg.pause_reason.triggered_action = "lexer"
                         THEN Len(dbg.parser_stack) + 1
                         ELSE Len(dbg.parser_stack))],
              "step_out")
  /\ debug_unchanged

\* terminate (grm_debugger.ts:1580-1583), in a pause or behind the parse
terminate ==
  /\ paused \/ pc = "done"
  /\ ~dbg.terminated
  /\ dbg' = IF paused
            THEN requested([dbg EXCEPT !.terminated = TRUE, !.step_break = undefined],
                           "terminate")
            ELSE [dbg EXCEPT !.terminated = TRUE, !.step_break = undefined]
  /\ debug_unchanged

\* parser_finished and finish (grm_debugger.ts:920-921, 992-1018): the message
\* of a lexer error is made and not written
parser_finished ==
  /\ pc = "done"
  /\ ~dbg.finished
  /\ dbg' = [dbg EXCEPT
               !.finished = TRUE,
               !.written = IF dbg.terminated THEN ""
                           ELSE IF "groups" \in DOMAIN result THEN "error"
                           ELSE IF "last_token" \in DOMAIN result THEN "error"
                           ELSE IF "position" \in DOMAIN result THEN ""
                           ELSE "info"]
  /\ debug_unchanged

\* launch (grm_debugger.ts:914-922)
InitDebug ==
  /\ str \in InputsOf(DebugWords, MaxDebugWords)
  /\ pc = "loop"
  /\ current_pos = 0
  /\ look_ahead = undefined
  /\ stack = LALR_setup(lalr)
  /\ result = undefined
  /\ lexed = <<>>
  /\ events = <<>>
  /\ LexIdle
  /\ OtherIdle
  /\ \E start_paused \in BOOLEAN : dbg = new_debugger(start_paused)
  /\ file = undefined
  /\ loader = undefined
  /\ ranges = <<>>
  /\ value = ""
  /\ contained = undefined

NextDebug ==
  \/ LexToken
  \/ ParseStep
  \/ token_lexed
  \/ parser_reduction
  \/ parser_shifted
  \/ observer_returned /\ TokenObserved
  \/ observer_returned /\ ReduceObserved
  \/ observer_returned /\ ShiftObserved
  \/ resume
  \/ step
  \/ step_in
  \/ step_out
  \/ terminate
  \/ parser_finished

SpecDebug == InitDebug /\ [][NextDebug]_vars

(***************************************************************************)
(* Properties                                                              *)
(***************************************************************************)
\* the DFA states in which a path from one of the states qs can be after
\* reading the characters s[i+1..to], whatever matching edges it follows
RECURSIVE dfa_paths(_, _, _, _)
dfa_paths(s, i, to, qs) ==
  IF i >= to THEN qs
  ELSE dfa_paths(s, i + 1, to,
                 UNION { { dfa_states(q).edges[k].target :
                           k \in { j \in DOMAIN dfa_states(q).edges :
                                   s[i + 1] \in dfa_states(q).edges[j].label } } :
                         q \in qs })

\* the prefix of length n of s[p..] is accepted by some path from the initial state
accepted_prefix(s, p, n) ==
  \E q \in dfa_paths(s, p, p + n, {dfa}) : dfa_states(q).result # undefined

\* tok has position p and the value of the longest accepted prefix of s from p
longest_match(s, p, tok) ==
  /\ tok.position = p
  /\ Len(tok.value) >= 1
  /\ tok.value = SubSeq(s, p + 1, p + Len(tok.value))
  /\ \E q \in dfa_paths(s, p, p + Len(tok.value), {dfa}) :
       dfa_states(q).result = tok.symbol
  /\ \A n \in (Len(tok.value) + 1)..(Len(s) - p) : ~accepted_prefix(s, p, n)

\* C1: a token that dfa_match returns for a start position p inside the input
\* has position p, its value is the L characters from p after which the DFA
\* is in the final state of the token's symbol, and no longer prefix of the
\* input from p is accepted on any path from the initial DFA state; stated of
\* the dfa_match of lexer.ts:192 and of the exported one of lexer.ts:71.
C1_LongestMatch ==
  (lx_pc # "dfa_match" /\ lx_start < Len(str)) =>
    /\ dm # undefined => longest_match(str, lx_start, dm)
    /\ dm_old # undefined => longest_match(str, lx_start, dm_old)

\* inside the input the exported dfa_match returned the end-of-file token,
\* where the other dfa_match returned no token
C1_Witness ==
  /\ lx_pc = "done"
  /\ lx_start < Len(str)
  /\ dm = undefined
  /\ dm_old # undefined
  /\ dm_old.symbol.type = FILE_END
  /\ dm_old.position = Len(str)

\* the DFA visits no final state on the input from p
no_final_state(s, p) == \A n \in 1..(Len(s) - p) : ~accepted_prefix(s, p, n)

\* C2: when the DFA visits no final state from a start position p inside the
\* input (it gets stuck, or the input runs out in a state that is not
\* final), parse_string returns the lexer error with position p; the
\* end-of-file token is the result only at or past the end of the input.
C2_LexErrorInsideInput ==
  [][(/\ pc = "loop"
      /\ look_ahead = undefined
      /\ current_pos < Len(str)
      /\ no_final_state(str, current_pos))
     => (pc' = "done" /\ result' = [position |-> current_pos])]_vars

\* parse_string took the end-of-file token from a position inside the input
C2_Witness ==
  /\ look_ahead # undefined
  /\ look_ahead.symbol.type = FILE_END
  /\ current_pos - Len(look_ahead.value) < Len(str)
  /\ no_final_state(str, current_pos - Len(look_ahead.value))

\* C3: after a reduce by a rule with n consumed symbols the new node is the
\* only item pushed, on the stack without its n top items, and its children
\* are the trees of those n items in the order in which they lay on the stack.
C3_ReduceChildrenOrder ==
  [][(pc = "loop" /\ pc' = "on_reduce") =>
       LET action == lalr_states(Top(stack).current_state).edges[look_ahead.symbol.name]
           rule == rules(action.target)
           n == Len(rule.consumes)
       IN  /\ action.type = REDUCE
           /\ Len(stack') = Len(stack) - n + 1
           /\ SubSeq(stack', 1, Len(stack) - n) = SubSeq(stack, 1, Len(stack) - n)
           /\ Top(stack').parse_tree.symbol = rule.produces
           /\ Top(stack').parse_tree.children =
                [k \in 1..n |-> stack[Len(stack) - n + k].parse_tree]]_vars

\* a reduce by a rule with three consumed symbols
C3_Witness ==
  /\ pc = "on_reduce"
  /\ Len(Top(stack).parse_tree.children) = 3

shift_count(ev) == Cardinality({ k \in DOMAIN ev : ev[k].event = "on_shift" })
parser_token_count(toks) ==
  Cardinality({ k \in DOMAIN toks : toks[k].symbol.type # SKIP_SYMBOLS })

\* C4: a shift pushes the look-ahead and clears it once its observer has
\* returned; a reduce leaves the look-ahead alone and lexes nothing; the lexer
\* is called only while there is no look-ahead; so every token handed to the
\* parser is either shifted or the one look-ahead.
C4_OneLookAhead ==
  [][/\ (pc = "loop" /\ pc' = "on_shift") =>
          /\ look_ahead' = look_ahead
          /\ Len(stack') = Len(stack) + 1
          /\ Top(stack').parse_tree.token = look_ahead
     /\ (pc = "on_shift" /\ pc' # "on_shift") =>
          (look_ahead # undefined /\ look_ahead' = undefined)
     /\ ((pc = "loop" /\ pc' = "on_reduce") \/ pc = "on_reduce") =>
          (look_ahead' = look_ahead /\ lexed' = lexed /\ current_pos' = current_pos)
     /\ (lexed' # lexed \/ current_pos' # current_pos) => look_ahead = undefined
     /\ (result = undefined /\ ("position" \in DOMAIN result' \/ "groups" \in DOMAIN result'))
          => look_ahead = undefined
     /\ (look_ahead' # look_ahead /\ look_ahead' # undefined) =>
          (look_ahead = undefined /\ lexed' = Append(lexed, look_ahead'))
     /\ parser_token_count(lexed') =
          shift_count(events')
            + (IF look_ahead' # undefined /\ pc' # "on_shift" THEN 1 ELSE 0)]_vars

\* a second shift, after a reduce on the look-ahead that is now shifted
C4_Witness ==
  /\ pc = "on_shift"
  /\ shift_count(events) = 2
  /\ events[Len(events) - 1].event = "on_reduce"
  /\ events[Len(events) - 1].token = look_ahead

\* C5: when the state on top of the stack has no action for the name of the
\* look-ahead's symbol, the step changes nothing on the stack, parse_string
\* returns the ParserError with that look-ahead and that stack, and no
\* observer is called.
C5_ParseErrorKeepsStack ==
  [][(/\ pc = "loop"
      /\ look_ahead # undefined
      /\ look_ahead.symbol.name
           \notin DOMAIN lalr_states(Top(stack).current_state).edges)
     => /\ stack' = stack
        /\ result' = [last_token |-> look_ahead, stack |-> stack]
        /\ events' = events
        /\ pc' = "done"]_vars

\* a ParserError on a token of the input, with items above the sentinel
C5_Witness ==
  /\ pc = "done"
  /\ "last_token" \in DOMAIN result
  /\ result.last_token # EOF_STRING
  /\ result.last_token.symbol.type = TERMINAL
  /\ Len(result.stack) >= 3

RECURSIVE tree_leaves(_)
\* the tokens at the leaves of a parse tree
tree_leaves(node) ==
  IF node.token # undefined THEN {node.token}
  ELSE UNION { tree_leaves(node.children[k]) : k \in DOMAIN node.children }

RECURSIVE total_length(_)
total_length(toks) ==
  IF toks = <<>> THEN 0 ELSE Len(Head(toks).value) + total_length(Tail(toks))

\* C6: a Skippable token, the token of a group included, is returned by the
\* lexer and moves the position of the driver on, but it is never the
\* look-ahead, never the token of an observer call and never a leaf of a
\* parse tree.
C6_SkippableFiltered ==
  /\ look_ahead # undefined => look_ahead.symbol.type # SKIP_SYMBOLS
  /\ \A k \in DOMAIN events : events[k].token.symbol.type # SKIP_SYMBOLS
  /\ \A k \in DOMAIN stack :
       \A t \in tree_leaves(stack[k].parse_tree) : t.symbol.type # SKIP_SYMBOLS
  /\ "symbol" \in DOMAIN result =>
       \A t \in tree_leaves(result) : t.symbol.type # SKIP_SYMBOLS
  /\ current_pos = total_length(lexed)

\* a comment group was lexed and skipped, and a later token is the look-ahead
C6_Witness ==
  /\ look_ahead # undefined
  /\ look_ahead.symbol.type = TERMINAL
  /\ \E k \in DOMAIN lexed :
       /\ lexed[k].symbol.name = "Comment"
       /\ lexed[k].position + Len(lexed[k].value) <= look_ahead.position

\* C7: a group frame closed by a token named as the end symbol of its group
\* gives the token at the start position of the frame whose value ends at the
\* end of the closing token, or at its start when the closing symbol is named
\* "newline" whatever the case of its letters.
C7_GroupTokenSpan ==
  (lx_closed # undefined /\ lx_closed.closing # undefined) =>
    /\ lx_closed.token.position = lx_closed.frame.start_position
    /\ lx_closed.token.value =
         SubSeq(str, lx_closed.frame.start_position + 1,
                IF toLowerCase(lx_closed.closing.symbol.name) = "newline"
                THEN lx_closed.closing.position
                ELSE lx_closed.closing.position + Len(lx_closed.closing.value))

all_open(stk) == \A k \in DOMAIN stk : groups(stk[k].group).ending_mode = "Open"

\* a group closed by the NewLine token, and the token of the group ends at
\* the end of that token
C7_Witness ==
  /\ lx_closed # undefined
  /\ lx_closed.closing # undefined
  /\ toLowerCase(lx_closed.closing.symbol.name) = "newline"
  /\ lx_closed.end = lx_closed.closing.position + Len(lx_closed.closing.value)
  /\ Len(lx_closed.token.value) = lx_closed.end - lx_closed.frame.start_position

\* C8: at the end of the input the frames are taken from the top: an Open
\* frame is closed with end = input length and its token appended to the
\* frame below, a Closed frame ends next_token with a GroupError; the result
\* is the token of the outermost group, up to the end of the input, exactly
\* when every frame open at the end of the input is Open (next_token of
\* lexer.ts, and the result of next_token of parser.ts, whose tokens have no
\* nested_tokens).
C8_EndOfInputGroups ==
  [][/\ (lx_pc = "eof" /\ Len(group_stack) > 0
           /\ groups(Top(group_stack).group).ending_mode = "Open") =>
          /\ Len(group_stack') = Len(group_stack) - 1
          /\ lx_token' = [position |-> Top(group_stack).start_position,
                          symbol |-> symbols(groups(Top(group_stack).group).symbol),
                          value |-> SubSeq(str, Top(group_stack).start_position + 1,
                                           Len(str)),
                          nested_tokens |-> Top(group_stack).nested_tokens]
          /\ Len(group_stack) > 1 =>
               /\ Top(group_stack').nested_tokens =
                    Append(group_stack[Len(group_stack) - 1].nested_tokens, lx_token')
               /\ SubSeq(group_stack', 1, Len(group_stack) - 2)
                    = SubSeq(group_stack, 1, Len(group_stack) - 2)
          /\ lx_result' = undefined
     /\ (lx_pc = "eof" /\ Len(group_stack) > 0
           /\ groups(Top(group_stack).group).ending_mode = "Closed") =>
          (lx_pc' = "local" /\ "groups" \in DOMAIN lx_result')
     /\ (lx_eof' # <<>> /\ lx_pc' \in {"local", "done"}) =>
          /\ all_open(lx_eof') <=> "groups" \notin DOMAIN lx_result'
          /\ all_open(lx_eof') =>
               /\ lx_result'.position = lx_eof'[1].start_position
               /\ lx_result'.symbol = symbols(groups(lx_eof'[1].group).symbol)
               /\ lx_result'.value =
                    SubSeq(str, lx_eof'[1].start_position + 1, Len(str))
     /\ (local_eof' # <<>> /\ lx_pc' = "done") =>
          /\ all_open(local_eof') <=> "groups" \notin DOMAIN local_result'
          /\ all_open(local_eof') =>
               /\ local_result'.position = local_eof'[1].start_token.position
               /\ local_result'.symbol = symbols(groups(local_eof'[1].group).symbol)
               /\ local_result'.value =
                    SubSeq(str, local_eof'[1].start_token.position + 1, Len(str))]_vars

\* two Open frames at the end of the input: the inner token is nested in the
\* token returned
C8_Witness ==
  /\ lx_pc = "done"
  /\ lx_eof # <<>>
  /\ Len(lx_eof) = 2
  /\ all_open(lx_eof)
  /\ Len(lx_result.nested_tokens) = 1

is_closed(frame) == groups(frame.group).ending_mode = "Closed"
frame_ids(stk) == [k \in DOMAIN stk |-> <<stk[k].group, stk[k].start_position>>]
group_error == lx_pc \in {"local", "done"} /\ "groups" \in DOMAIN lx_result
local_group_error == lx_pc = "done" /\ "groups" \in DOMAIN local_result

\* C9: the frames of a GroupError are exactly the Closed-mode groups unclosed
\* at the end of the input, top of the stack first.
C9_ClosedFramesTopFirst ==
  /\ group_error =>
       frame_ids(lx_result.groups) = Reverse(frame_ids(SelectSeq(lx_eof, is_closed)))
  /\ local_group_error =>
       local_result.groups = Reverse(SelectSeq(local_eof, is_closed))

\* C9 as amended: the frames of a GroupError are the group stack as it stands
\* when the topmost Closed-mode frame is met: bottom of the stack first, the
\* topmost unclosed Closed-mode group last, with every frame beneath it, also
\* the Open-mode ones (next_token of lexer.ts and next_token of parser.ts).
C9_GroupErrorStack ==
  /\ local_group_error =>
       /\ is_closed(Top(local_result.groups))
       /\ \A k \in (Len(local_result.groups) + 1)..Len(local_eof) :
            ~is_closed(local_eof[k])
       /\ local_result.groups = SubSeq(local_eof, 1, Len(local_result.groups))
  /\ group_error =>
    /\ lx_result.groups = group_stack
    /\ is_closed(Top(lx_result.groups))
    /\ \A k \in (Len(lx_result.groups) + 1)..Len(lx_eof) : ~is_closed(lx_eof[k])
    /\ frame_ids(lx_result.groups) = SubSeq(frame_ids(lx_eof), 1, Len(lx_result.groups))

\* a GroupError with an Open-mode frame beneath the Closed-mode one
C9_Witness ==
  /\ group_error
  /\ local_group_error
  /\ Len(lx_result.groups) >= 2
  /\ ~is_closed(lx_result.groups[1])

\* C10: parse_string returns a tree only from a stack of the sentinel item and
\* one more item, whose node has the start symbol of the grammar, and that
\* node is the tree returned.
C10_AcceptOnStartSymbol ==
  [][(result = undefined /\ "symbol" \in DOMAIN result') =>
       /\ Len(stack) = 2
       /\ stack[1] = LALR_setup(lalr)[1]
       /\ stack[2].parse_tree.symbol.name = START_SYMBOL
       /\ result' = stack[2].parse_tree
       /\ stack' = <<stack[1]>>]_vars

\* an accepted input
C10_Witness ==
  /\ pc = "done"
  /\ "symbol" \in DOMAIN result
  /\ Len(result.children) = 3

\* the look-ahead is the end-of-file token lexed at the end of the input
at_end_of_input ==
  /\ look_ahead # undefined
  /\ look_ahead.symbol.type = FILE_END
  /\ look_ahead.position = Len(str)
  /\ current_pos - Len(look_ahead.value) = Len(str)

\* C11: when the look-ahead is the end-of-file token of the exhausted input
\* and the state on top of the stack has no action for it, the ParserError
\* returned has the end-of-input marker as last_token, not a token.
C11_EndOfInputMarker ==
  [][(/\ pc = "loop"
      /\ at_end_of_input
      /\ look_ahead.symbol.name
           \notin DOMAIN lalr_states(Top(stack).current_state).edges)
     => (pc' = "done" /\ result'.last_token = EOF_STRING)]_vars

\* the input `a ==` was lexed to its end and the ParserError carries the
\* end-of-file token, above the items of <Expression> and '=='
C11_Witness ==
  /\ pc = "done"
  /\ at_end_of_input
  /\ "last_token" \in DOMAIN result
  /\ result.last_token = look_ahead
  /\ Len(result.stack) = 3
  /\ Top(result.stack).parse_tree.symbol.name = "=="

\* C12: lexing at position = input length gives the end-of-file token with
\* position = input length, and the position of the driver stays equal to
\* the input length.
C12_EofDoesNotAdvance ==
  [][(pc = "loop" /\ look_ahead = undefined /\ current_pos = Len(str))
     => /\ look_ahead'.symbol.type = FILE_END
        /\ look_ahead'.position = Len(str)
        /\ current_pos' = Len(str)]_vars

\* the end-of-file token was lexed at the input length and the position of
\* the driver is past it
C12_Witness ==
  /\ at_end_of_input
  /\ Top(lexed) = look_ahead
  /\ current_pos > Len(str)

\* the indexes of the edges of DFA state q whose label has the character c
matching_edges(q, c) ==
  { j \in DOMAIN dfa_states(q).edges : c \in dfa_states(q).edges[j].label }

\* the target of the matching edge that comes first in the edge list of q;
\* -1 when no edge matches or q is -1
first_target(q, c) ==
  IF q = -1 \/ matching_edges(q, c) = {} THEN -1
  ELSE dfa_states(q).edges[CHOOSE j \in matching_edges(q, c) :
                             \A k \in matching_edges(q, c) : j <= k].target

\* the state after the characters s[i+1..to], from q along first edges
RECURSIVE first_edge_run(_, _, _, _)
first_edge_run(s, i, to, q) ==
  IF i >= to THEN q ELSE first_edge_run(s, i + 1, to, first_target(q, s[i + 1]))

\* the first-edge run from the initial state accepts the n characters from p
first_edge_accepts(s, p, n) ==
  /\ first_edge_run(s, p, p + n, tie_dfa) # -1
  /\ dfa_states(first_edge_run(s, p, p + n, tie_dfa)).result # undefined

\* tok is what the run along first edges matches from p: its longest accepted
\* prefix, or no token when it accepts none
first_edge_token(s, p, tok) ==
  IF tok = undefined THEN \A n \in 1..(Len(s) - p) : ~first_edge_accepts(s, p, n)
  ELSE /\ tok.position = p
       /\ tok.value = SubSeq(s, p + 1, p + Len(tok.value))
       /\ first_edge_accepts(s, p, Len(tok.value))
       /\ dfa_states(first_edge_run(s, p, p + Len(tok.value), tie_dfa)).result
            = tok.symbol
       /\ \A n \in (Len(tok.value) + 1)..(Len(s) - p) : ~first_edge_accepts(s, p, n)

\* C13: where the labels of several edges of a DFA state have the current
\* character, the DFA follows the edge that comes first in the edge list of
\* the state: edge_with_label gives that edge for every state and character,
\* and the token of dfa_match (both versions) is the one of the run along
\* first edges.
C13_FirstEdgeWins ==
  (lx_pc = "done" /\ lx_start < Len(str)) =>
    /\ \A q \in 15..18 : \A k \in DOMAIN str :
         IF matching_edges(q, str[k]) = {}
         THEN edge_with_label(dfa_states(q), str[k]) = undefined
         ELSE edge_with_label(dfa_states(q), str[k]).target = first_target(q, str[k])
    /\ first_edge_token(str, lx_start, dm)
    /\ (dm_old # undefined /\ dm_old.symbol.type # FILE_END) =>
         first_edge_token(str, lx_start, dm_old)

\* two edges of the initial state with different targets have the first
\* character, and the token read on from the target of the first of them
C13_Witness ==
  /\ lx_pc = "done"
  /\ lx_start < Len(str)
  /\ Cardinality({ dfa_states(tie_dfa).edges[j].target :
                   j \in matching_edges(tie_dfa, str[lx_start + 1]) }) = 2
  /\ dm # undefined
  /\ Len(dm.value) = 2
  /\ dm_old = dm

\* on_token was called for the token tok
token_observed(ev, tok) ==
  \E j \in DOMAIN ev : ev[j].event = "on_token" /\ ev[j].token = tok

\* C14: every on_shift and on_reduce call is made with a look-ahead for which
\* on_token was called before (the calls are only ever added at the end of
\* the history), and an LALR step is done only on a look-ahead whose
\* on_token call has been made and has returned (parse_string is back in its
\* loop).
C14_TokenBeforeStep ==
  [][/\ (events' # events /\ Top(events').event \in {"on_shift", "on_reduce"}) =>
          (events' = Append(events, Top(events'))
             /\ token_observed(events, Top(events').token))
     /\ (\/ stack' # stack
         \/ (result = undefined
               /\ ("last_token" \in DOMAIN result' \/ "symbol" \in DOMAIN result')))
        => /\ pc = "loop"
           /\ look_ahead # undefined
           /\ token_observed(events, look_ahead)]_vars

\* a reduce on a look-ahead that is not the first token
C14_Witness ==
  /\ pc = "on_reduce"
  /\ Len(lexed) >= 2
  /\ events[Len(events)].event = "on_reduce"
  /\ events[Len(events)].token = look_ahead
  /\ events[Len(events) - 1].event = "on_token"
  /\ events[Len(events) - 1].token = look_ahead

\* parse_string is suspended in an observer
observer_pending == pc \in {"on_token", "on_shift", "on_reduce"}

\* C15: while an observer has not returned, the only step is its return:
\* nothing is lexed, no LALR step is done and no observer is called; an
\* observer is called only when none is pending, one call per step, and an
\* on_reduce call reports the reduction just done (state before, look-ahead,
\* stack after), so that consecutive reductions on one look-ahead are
\* reported one at a time in the order in which they are done.
C15_ObserverBlocks ==
  [][/\ observer_pending =>
          /\ pc' = "loop"
          /\ stack' = stack
          /\ lexed' = lexed
          /\ current_pos' = current_pos
          /\ events' = events
          /\ result' = result
          /\ pc # "on_shift" => look_ahead' = look_ahead
     /\ events' # events =>
          /\ ~observer_pending
          /\ events' = Append(events, Top(events'))
          /\ pc' = Top(events').event
     /\ (pc = "loop" /\ pc' = "on_reduce") =>
          /\ Top(events').event = "on_reduce"
          /\ Top(events').state = Top(stack).current_state
          /\ Top(events').token = look_ahead
          /\ Top(events').stack = stack'
          /\ stack' # stack]_vars

\* the second of two consecutive reductions on one look-ahead is pending
C15_Witness ==
  /\ pc = "on_reduce"
  /\ Len(events) >= 2
  /\ events[Len(events)].event = "on_reduce"
  /\ events[Len(events) - 1].event = "on_reduce"
  /\ events[Len(events) - 1].token = events[Len(events)].token
  /\ events[Len(events)].stack = stack
  /\ events[Len(events) - 1].stack # stack

\* r is a LexerError, a GroupError or a ParserError
is_failure(r) ==
  "position" \in DOMAIN r \/ "groups" \in DOMAIN r \/ "last_token" \in DOMAIN r

\* the step returns the failure r and does nothing else
returns_failure(r) ==
  /\ result' = r
  /\ pc' = "done"
  /\ UNCHANGED <<current_pos, look_ahead, stack, lexed, events>>

\* C16: when next_token reports a lexer error or a GroupError, or LALR_step
\* an error, that step of parse_string returns the failure and does nothing
\* else; after a failure was returned there is no step at all: no lexer call,
\* no LALR step, no observer call.
C16_FirstFailureEnds ==
  [][/\ (pc = "loop" /\ look_ahead = undefined /\ current_pos <= Len(str)
           /\ parser_next_token(str, current_pos, dfa) = undefined)
          => returns_failure([position |-> current_pos])
     /\ (pc = "loop" /\ look_ahead = undefined /\ current_pos <= Len(str)
           /\ "groups" \in DOMAIN parser_next_token(str, current_pos, dfa))
          => returns_failure(parser_next_token(str, current_pos, dfa))
     /\ (pc = "loop" /\ look_ahead # undefined
           /\ LALR_step(look_ahead, stack).step = "ERROR")
          => returns_failure([last_token |-> look_ahead, stack |-> stack])
     /\ is_failure(result) => UNCHANGED parse_vars]_vars

\* a lexer error after tokens were lexed, shifted and observed
C16_Witness ==
  /\ pc = "done"
  /\ "position" \in DOMAIN result
  /\ result.position = current_pos
  /\ result.position > 0
  /\ Len(events) >= 2

\* C20: group nesting is well-founded.  A step of next_token (lexer.ts) that
\* shortens the group stack removes exactly one frame, the top one, and
\* leaves the identity of the frames beneath alone; a step that lengthens it
\* pushes exactly one frame, either the frame of the opening group-start
\* token onto the empty stack or, inside the scan, the frame of a group-start
\* token whose group is nestable in the group on top; and when next_token
\* returns a group token the stack is empty.
frame_pushed ==
  /\ Len(group_stack') = Len(group_stack) + 1
  /\ Pop(group_stack') = group_stack
  /\ Top(group_stack').nested_tokens = <<>>

C20_GroupNesting ==
  [][/\ Len(group_stack') < Len(group_stack) =>
          /\ lx_pc \in {"scan", "eof"}
          /\ frame_ids(group_stack') = frame_ids(Pop(group_stack))
          /\ lx_closed'.frame = Top(group_stack)
     /\ Len(group_stack') > Len(group_stack) =>
          /\ frame_pushed
          /\ \/ /\ lx_pc = "next_token"
                /\ group_stack = <<>>
                /\ lx_token'.symbol.type = GROUP_START
                /\ lx_token'.position = lx_start
                /\ Top(group_stack').group = lx_token'.symbol.group
                /\ Top(group_stack').start_position = lx_start
             \/ /\ lx_pc = "scan"
                /\ lx_token'.symbol.type = GROUP_START
                /\ groups(lx_token'.symbol.group).name
                     \in groups(Top(group_stack).group).nestable_groups
                /\ Top(group_stack').group = lx_token'.symbol.group
                /\ Top(group_stack').start_position = lx_token'.position
     /\ (lx_pc # "local" /\ lx_pc' = "local" /\ lx_result' # undefined
           /\ "nested_tokens" \in DOMAIN lx_result') =>
          group_stack' = <<>>]_vars

\* a line comment holding a nested line comment that the line end closes,
\* itself closed at the end of the input and returned as one group token
C20_Witness ==
  /\ lx_pc = "local"
  /\ lx_result # undefined
  /\ "nested_tokens" \in DOMAIN lx_result
  /\ Len(lx_result.nested_tokens) = 1
  /\ lx_result.nested_tokens[1].value = <<"/", "/", "\n">>
  /\ lx_result.value = <<"/", "/", "/", "/", "\n">>
  /\ lx_closed.closing = undefined
  /\ group_stack = <<>>

\* C19: the tokens come in input order and cover the input without gap or
\* overlap: before every lexer call the position of the driver is the sum of
\* the value lengths of all tokens lexed so far, skippable ones included and a
\* group token counted once, and every token the lexer returns has that
\* position as its position.
C19_TokensCoverInput ==
  [][/\ current_pos = total_length(lexed)
     /\ lexed' # lexed =>
          /\ lexed' = Append(lexed, Top(lexed'))
          /\ Top(lexed').position = current_pos
          /\ current_pos' = current_pos + Len(Top(lexed').value)]_vars

\* the token whose position is not the position of the driver is the EOF
\* token dfa_match returns when no token matches inside the input
C19_GapOnlyAtRunOut ==
  [][lexed' # lexed =>
          \/ Top(lexed').position = current_pos
          \/ /\ Top(lexed').symbol.type = FILE_END
             /\ Top(lexed').position = Len(str)
             /\ current_pos < Len(str)]_vars

\* the driver holds an EOF token lexed inside the input: its position is the
\* end of the input, the driver stood before it
C19_Witness ==
  /\ lexed # <<>>
  /\ Top(lexed).symbol.type = FILE_END
  /\ Top(lexed).position = Len(str)
  /\ total_length(Pop(lexed)) < Len(str)
  /\ current_pos = total_length(lexed)

\* C17: parsing is deterministic.  Two calls of parse_string on the same
\* tables and the same input, however their steps interleave, make the same
\* observer calls in the same order, lex the same tokens and return the same
\* result; and two lexer calls at the same position of the same input return
\* the same token, whatever was lexed before.
is_prefix(a, b) == Len(a) <= Len(b) /\ a = SubSeq(b, 1, Len(a))

call_position(toks, k) == total_length(SubSeq(toks, 1, k - 1))

nested_frame_closed ==
  /\ lx_pc = "scan"
  /\ Len(group_stack) > 1
  /\ Len(group_stack') = Len(group_stack) - 1

C30_NestedCloseAdvance ==
  [][nested_frame_closed =>
       /\ Top(group_stack').nested_tokens =
            Append(group_stack[Len(group_stack) - 1].nested_tokens, lx_closed'.token)
       /\ lx_pos' = lx_pos + Len(lx_token'.value)]_vars

\* what the code does: the token of the closed nested frame is appended to
\* its parent, and the scan position moves on by the length of the closing
\* token and then by the increment of an ordinary token (lexer.ts:310-318)
C30_CloseAdvancesTwice ==
  [][nested_frame_closed =>
       /\ Top(group_stack').nested_tokens =
            Append(group_stack[Len(group_stack) - 1].nested_tokens, lx_closed'.token)
       /\ lx_pos' = lx_pos + Len(lx_token'.value)
                      + (IF groups(Top(group_stack).group).advance_mode = "Char"
                         THEN 1 ELSE Len(lx_token'.value))]_vars

\* a nested frame was closed by a closing token and the scan of its parent
\* goes on one character behind the end of that token
C30_Witness ==
  /\ lx_pc = "scan"
  /\ Len(group_stack) = 1
  /\ Len(Top(group_stack).nested_tokens) = 1
  /\ lx_closed # undefined
  /\ lx_closed.closing # undefined
  /\ lx_token = lx_closed.closing
  /\ lx_pos = lx_token.position + Len(lx_token.value) + 1

\* C29: inside a group a group-start token whose group is nestable in the top
\* frame pushes exactly one frame, with the position of the token as start
\* position, and the scan position moves on by the length of that token; a
\* group-start token whose group is not nestable in the top frame pushes
\* nothing; the scan position also moves on by the length of the opening token
\* after the outermost group is opened (next_token of lexer.ts, step by step,
\* and the for loop of next_token of parser.ts).
nestable_in(tok, stk) ==
  groups(tok.symbol.group).name \in groups(Top(stk).group).nestable_groups

C29_LexerPush ==
  /\ (lx_pc = "next_token" /\ lx_pc' = "scan") =>
       /\ group_stack' = << [group |-> lx_token'.symbol.group,
                             start_position |-> lx_token'.position,
                             nested_tokens |-> <<>>] >>
       /\ lx_pos' = lx_start + Len(lx_token'.value)
  /\ (lx_pc = "scan" /\ lx_token' # undefined /\ lx_pos < Len(str)
        /\ lx_token'.symbol.type = GROUP_START) =>
       IF nestable_in(lx_token', group_stack)
       THEN /\ group_stack' = Append(group_stack,
                                     [group |-> lx_token'.symbol.group,
                                      start_position |-> lx_token'.position,
                                      nested_tokens |-> <<>>])
            /\ lx_token'.position = lx_pos
            /\ lx_pos' = lx_pos + Len(lx_token'.value)
       ELSE group_stack' = group_stack

local_scan == parser_scan_trace(str, lx_start, undefined, <<>>, dfa, <<>>)

C29_ParserPush ==
  lx_pc = "done" =>
    \A k \in DOMAIN local_scan :
      (local_scan[k].token # undefined
         /\ local_scan[k].token.symbol.type = GROUP_START) =>
        IF Len(local_scan[k].before) = 0
             \/ nestable_in(local_scan[k].token, local_scan[k].before)
        THEN /\ local_scan[k].after =
                  Append(local_scan[k].before,
                         [group |-> local_scan[k].token.symbol.group,
                          start_token |-> local_scan[k].token])
             /\ local_scan[k].token.position = local_scan[k].position
             /\ local_scan[k].next =
                  local_scan[k].position + Len(local_scan[k].token.value)
        ELSE local_scan[k].after = local_scan[k].before

C29_GroupStartPush == [][C29_LexerPush]_vars /\ []C29_ParserPush

\* what the for loop of parser.ts does: the frame is pushed as claimed, the
\* scan position moves on by next_increment, computed with the new frame on top
C29_ParserPushIncrement ==
  lx_pc = "done" =>
    \A k \in DOMAIN local_scan :
      (local_scan[k].token # undefined
         /\ local_scan[k].token.symbol.type = GROUP_START) =>
        IF Len(local_scan[k].before) = 0
             \/ nestable_in(local_scan[k].token, local_scan[k].before)
        THEN /\ local_scan[k].after =
                  Append(local_scan[k].before,
                         [group |-> local_scan[k].token.symbol.group,
                          start_token |-> local_scan[k].token])
             /\ local_scan[k].token.position = local_scan[k].position
             /\ local_scan[k].next =
                  local_scan[k].position
                    + (IF groups(local_scan[k].token.symbol.group).advance_mode = "Char"
                       THEN 1 ELSE Len(local_scan[k].token.value))
        ELSE local_scan[k].after = local_scan[k].before

C29_LexerPushHolds == [][C29_LexerPush]_vars

\* next_token of parser.ts closed a block comment with a closing token that
\* begins inside the opening token
C29_Witness ==
  /\ lx_pc = "done"
  /\ Len(local_scan) = 2
  /\ local_scan[1].token.symbol.type = GROUP_START
  /\ local_scan[1].next = local_scan[1].position + 1
  /\ local_scan[2].token.symbol.type = GROUP_END
  /\ local_scan[2].after = <<>>
  /\ "groups" \in DOMAIN lx_result
  /\ "groups" \notin DOMAIN local_result

\* C26 as stated: the ranges of a range set are half-open, a character with
\* code c is a member iff start <= c < end for one of its ranges.
in_half_open_range ==
  \E k \in DOMAIN ranges :
    ranges[k].start <= utf16[value] /\ utf16[value] < ranges[k].end

C26_RangeHalfOpen ==
  contained # undefined => (contained.returned <=> in_half_open_range)

\* C26 (amended): the ranges of a range set are closed, a character with code
\* c is a member iff start <= c <= end for one of its ranges; a character
\* whose code is the end value of a range is a member.
in_closed_range ==
  \E k \in DOMAIN ranges :
    ranges[k].start <= utf16[value] /\ utf16[value] <= ranges[k].end

C26_RangeClosed ==
  contained # undefined => (contained.returned <=> in_closed_range)

\* contains was asked about the end value of a range that no range has inside
C26_Witness ==
  /\ contained # undefined
  /\ contained.returned
  /\ \E k \in DOMAIN ranges :
       ranges[k].start < ranges[k].end /\ utf16[value] = ranges[k].end
  /\ ~in_half_open_range

\* C22: loading fails when the file does not start with the header
\* GOLD Parser Tables/v<N>.0 or when N is not 1 or 5; the file is rejected at
\* the header, before any record is decoded.
header_supported(h) ==
  /\ Len(h) >= 4
  /\ h[1] = MAGIC
  /\ h[2] \in {"1", "5"}
  /\ h[3] = "."
  /\ h[4] = "0"

C22_HeaderChecked ==
  [][(loader.pc = "header" /\ ~header_supported(file.header)) =>
       (loader'.pc = "failed" /\ loader'.next = 1)]_vars

\* a file whose header reads GOLD Parser Tables/v9.0 was loaded
C22_Witness ==
  /\ loader.pc = "done"
  /\ file.header = <<MAGIC, "9", ".", "0">>
  /\ loader.version = "9"
  /\ loader.next = Len(file.records) + 1

\* what the code checks: the header fails when the expression matches nowhere
\* in it, and any digit is taken as the version
C22_HeaderMatched ==
  [][loader.pc = "header" =>
       IF \E i \in DOMAIN file.header :
            /\ i + 3 <= Len(file.header)
            /\ file.header[i] = MAGIC
            /\ file.header[i + 1] \in Digits
            /\ file.header[i + 3] = "0"
       THEN loader'.pc = "records"
       ELSE loader'.pc = "failed"]_vars

\* C23: a record whose type byte is none of the known record tags makes the
\* load fail, whatever the number of fields it announces, the record of the
\* type byte alone included.
known_record_tags == {"P", "p", "T", "t", "I", "C", "c", "S", "D", "L", "R", "g", "n"}

unknown_record_next ==
  /\ loader.pc = "records"
  /\ loader.next <= Len(file.records)
  /\ file.records[loader.next].type \notin known_record_tags

C23_UnknownRecordFails ==
  [][unknown_record_next => loader'.pc = "failed"]_vars

\* what the code does: an unknown record fails the load, as an incomplete
\* record, exactly when it has a field behind its type byte
C23_UnknownRecordIncomplete ==
  [][unknown_record_next =>
       IF file.records[loader.next].fields = <<>>
       THEN loader'.pc = "records" /\ loader'.next = loader.next + 1
       ELSE loader'.pc = "failed" /\ loader'.error = "Incomplete record reading"]_vars

\* a file with a record of an unknown type was loaded
C23_Witness ==
  /\ loader.pc = "done"
  /\ \E k \in DOMAIN file.records :
       file.records[k].type \notin known_record_tags /\ file.records[k].fields = <<>>

\* C24: a load that succeeds has no missing cross-reference: every edge of the
\* DFA has a label and a target state, every accepting state its symbol, every
\* rule its symbols, every LALR action its rule or target state and every
\* group its symbol.
dfa_linked(d, parsed) ==
  \A i \in DOMAIN d.states :
    /\ at(parsed, i).result # undefined => d.states[i].result # undefined
    /\ \A e \in DOMAIN d.states[i].edges :
         /\ d.states[i].edges[e].label # undefined
         /\ d.states[i].edges[e].target \in DOMAIN d.states

rules_linked(rls) ==
  \A k \in DOMAIN rls :
    rls[k] # undefined =>
      /\ rls[k].produces # undefined
      /\ \A c \in DOMAIN rls[k].consumes : rls[k].consumes[c] # undefined

lalr_linked(a) ==
  \A i \in DOMAIN a.states :
    \A n \in DOMAIN a.states[i].edges :
      "target" \in DOMAIN a.states[i].edges[n] =>
        /\ a.states[i].edges[n].target # undefined
        /\ a.states[i].edges[n].type = SHIFT =>
             a.states[i].edges[n].target.state \in DOMAIN a.states

groups_linked(syms) ==
  \A k \in DOMAIN syms :
    (syms[k] # undefined /\ "group" \in DOMAIN syms[k]) =>
      syms[k].group.symbol # undefined

C24_CrossReferences ==
  loader.pc = "done" =>
    /\ dfa_linked(loader.result.dfa, loader.dfa_states)
    /\ rules_linked(loader.result.rules)
    /\ lalr_linked(loader.result.lalr)
    /\ groups_linked(loader.result.symbols)

\* a load succeeded with an edge of the DFA that has no label
C24_Witness ==
  /\ loader.pc = "done"
  /\ \E i \in DOMAIN loader.result.dfa.states :
       \E e \in DOMAIN loader.result.dfa.states[i].edges :
         loader.result.dfa.states[i].edges[e].label = undefined

\* a missing state is the one missing cross-reference that fails the load
C24_TargetsLinked ==
  loader.pc = "done" =>
    /\ \A i \in DOMAIN loader.result.dfa.states :
         \A e \in DOMAIN loader.result.dfa.states[i].edges :
           loader.result.dfa.states[i].edges[e].target \in DOMAIN loader.result.dfa.states
    /\ \A i \in DOMAIN loader.result.lalr.states :
         \A n \in DOMAIN loader.result.lalr.states[i].edges :
           ("target" \in DOMAIN loader.result.lalr.states[i].edges[n]
              /\ loader.result.lalr.states[i].edges[n].type = SHIFT) =>
             loader.result.lalr.states[i].edges[n].target.state
               \in DOMAIN loader.result.lalr.states

\* C25: after the load of a version 1 grammar with a CommentLine symbol and a
\* symbol named newline, the CommentLine symbol has the type GROUP_START and a
\* group that starts with it, ends with the newline symbol, advances by
\* character and is Open; a GROUP_START and a GROUP_END symbol are connected
\* by a group that advances by character and is Closed; the symbols of a
\* version 5 grammar keep their types and have the groups of the group records
\* only.
is_comment_group(group, start, end, ending_mode) ==
  /\ group.start_symbol = start
  /\ group.end_symbol = end
  /\ group.advance_mode = "Char"
  /\ group.ending_mode = ending_mode

has_comment_group(syms, i, start, end, ending_mode) ==
  /\ "group" \in DOMAIN syms[i + 1]
  /\ is_comment_group(syms[i + 1].group, start.found, end.found, ending_mode)

C25_CommentGroups ==
  loader.pc = "done" =>
    /\ (/\ loader.version = "1"
        /\ "found" \in DOMAIN find(loader.symbols, is_comment_line)
        /\ "found" \in DOMAIN find(loader.symbols, is_new_line)) =>
         /\ loader.result.symbols[find(loader.symbols, is_comment_line).found + 1].type
              = GROUP_START
         /\ has_comment_group(loader.result.symbols,
                              find(loader.symbols, is_comment_line).found,
                              find(loader.symbols, is_comment_line),
                              find(loader.symbols, is_new_line), "Open")
    /\ (/\ loader.version = "1"
        /\ "found" \in DOMAIN find(loader.symbols, is_group_start)
        /\ "found" \in DOMAIN find(loader.symbols, is_group_end)) =>
         /\ has_comment_group(loader.result.symbols,
                              find(loader.symbols, is_group_start).found,
                              find(loader.symbols, is_group_start),
                              find(loader.symbols, is_group_end), "Closed")
         /\ has_comment_group(loader.result.symbols,
                              find(loader.symbols, is_group_end).found,
                              find(loader.symbols, is_group_start),
                              find(loader.symbols, is_group_end), "Closed")
    /\ loader.version = "5" =>
         \A k \in DOMAIN loader.symbols :
           IF loader.symbols[k] = undefined
           THEN loader.result.symbols[k] = undefined
           ELSE
           /\ loader.result.symbols[k].type = loader.symbols[k].type
           /\ "group" \in DOMAIN loader.result.symbols[k] =>
                \E g \in DOMAIN loader.parsed_groups :
                  /\ loader.result.symbols[k].group.name = loader.parsed_groups[g].name
                  /\ k - 1 \in {loader.parsed_groups[g].start_symbol,
                                loader.parsed_groups[g].end_symbol}

\* a version 1 grammar with the four comment symbols was loaded, both comment
\* groups were made
C25_Witness ==
  /\ loader.pc = "done"
  /\ loader.version = "1"
  /\ "found" \in DOMAIN find(loader.symbols, is_comment_line)
  /\ "found" \in DOMAIN find(loader.symbols, is_new_line)
  /\ "found" \in DOMAIN find(loader.symbols, is_group_start)
  /\ "found" \in DOMAIN find(loader.symbols, is_group_end)
  /\ loader.result.symbols[3].group.ending_mode = "Open"
  /\ loader.result.symbols[5].group.ending_mode = "Closed"

\* C21: a parse can be cancelled: once the cancellation is signalled (the
\* debugger's terminate), the driver invokes no observer any more and returns
\* the result Cancelled.
Cancelled == [cancelled |-> TRUE]

C21_Cancellation ==
  [][(dbg.terminated /\ pc # "done") =>
       /\ events' = events
       /\ pc' = "done" => result' = Cancelled]_vars

\* a parse that was terminated in a pause called its observers afterwards and
\* returned the parse tree
C21_Witness ==
  /\ dbg.terminated
  /\ dbg.request # undefined
  /\ dbg.request.name = "terminate"
  /\ pc = "done"
  /\ Len(events) > dbg.request.event
  /\ "symbol" \in DOMAIN result
  /\ result.symbol.name = START_SYMBOL

\* what terminate does: no handler waits or writes in a terminated session
C21_TerminatedHandlersReturn ==
  [][dbg.terminated =>
       (dbg'.awaits = "no" /\ dbg'.written = dbg.written
          /\ dbg'.tokens = dbg.tokens /\ dbg'.parser_stack = dbg.parser_stack)]_vars

\* C27: after a step in from the Parser level the next pause of that step is
\* at the Lexer level, at the next token, and not at a shift or a reduction in
\* between; a step in from the Lexer level is a step: the next pause is at the
\* next token.
step_pause ==
  /\ dbg.awaits = "step"
  /\ dbg.pause_reason.reason = "step"
  /\ dbg.request # undefined

\* the events between the request and the event of the pause
events_passed == (dbg.request.event + 1)..(Len(events) - 1)

C27_StepIn ==
  (step_pause /\ dbg.request.name = "step_in") =>
    /\ dbg.pause_reason.triggered_action = "lexer"
    /\ \A k \in events_passed : events[k].event # "on_token"

\* a step in from the Parser level paused at an action of the parser
C27_Witness ==
  /\ step_pause
  /\ dbg.request.name = "step_in"
  /\ dbg.request.pause_reason.triggered_action = "parser"
  /\ dbg.pause_reason.triggered_action = "parser"
  /\ events[Len(events)].event = "on_reduce"

\* what the code does: a step in from the Parser level pauses at the next
\* action whatever its level, a step in from the Lexer level at the next token
C27_StepInNextAction ==
  (step_pause /\ dbg.request.name = "step_in") =>
    IF dbg.request.pause_reason.triggered_action = "parser"
    THEN /\ Len(events) = dbg.request.event + 1
         /\ dbg.pause_reason.step_info.step_kind = "step_in"
    ELSE /\ dbg.pause_reason.triggered_action = "lexer"
         /\ dbg.pause_reason.step_info = Step("lexer")
         /\ \A k \in events_passed : events[k].event # "on_token"

\* C28: after a step out from the Lexer level the next pause of that step is
\* at an action of the parser, the first one; after a step out from the Parser
\* level with n items on the parser stack it is at the first later action of
\* the parser that leaves at most n items, which is a reduction that consumes
\* the item that was on top, and never at a token or a shift.
size_after(ev) == Len(ev.stack) - 1

scan_iteration == lx_pc = "scan" /\ lx_pos < Len(str)

C31_LexerProgress ==
  scan_iteration =>
    /\ lx_pc' = "scan" => lx_pos' >= lx_pos + 1
    /\ (lx_pc' = "scan" /\ dfa_match(str, lx_pos, dfa) = undefined) =>
         lx_pos' = lx_pos + 1

C31_LexerPositions == lx_pc = "scan" => lx_start < lx_pos

in_group_iterations == { k \in DOMAIN local_scan : local_scan[k].before # <<>> }

C31_ParserProgress ==
  lx_pc = "done" =>
    /\ \A k \in DOMAIN local_scan :
         /\ k < Len(local_scan) => local_scan[k].next >= local_scan[k].position + 1
         /\ (local_scan[k].token = undefined /\ local_scan[k].before # <<>>) =>
              local_scan[k].next = local_scan[k].position + 1
    /\ Cardinality(in_group_iterations) <= Len(str) - lx_start

C31_ScanProgress ==
  /\ [][C31_LexerProgress]_vars
  /\ [](C31_LexerPositions /\ C31_ParserProgress)

\* in a group that advances by token the DFA found no token and the scan of
\* lexer.ts went on
C31_Witness ==
  /\ lx_pc = "scan"
  /\ lx_token = undefined
  /\ groups(Top(group_stack).group).advance_mode = "Token"
  /\ lx_pos > lx_start + 2
  /\ lx_pos < Len(str)

\* C32: once a group is open, content with no token is no lexer error: when
\* the token at the position is a group start, next_token of lexer.ts and of
\* parser.ts return the token of that group or a GroupError, never undefined
\* and never another token.
group_opened_at_start == dm # undefined /\ dm.symbol.type = GROUP_START

group_token_or_error(r) ==
  /\ r # undefined
  /\ \/ "groups" \in DOMAIN r
     \/ /\ r.symbol = symbols(groups(dm.symbol.group).symbol)
        /\ r.position = lx_start

C32_NoLexErrorInGroup ==
  (lx_pc = "done" /\ group_opened_at_start) =>
    /\ group_token_or_error(lx_result)
    /\ group_token_or_error(local_result)

\* the positions of the input, behind the opening token, with no token
unlexable_inside ==
  { p \in (lx_start + Len(dm.value))..(Len(str) - 1) :
      dfa_match(str, p, dfa) = undefined }

\* a group with content that is no token was returned as the group's token by
\* both functions
C32_Witness ==
  /\ lx_pc = "done"
  /\ group_opened_at_start
  /\ unlexable_inside # {}
  /\ "groups" \notin DOMAIN lx_result
  /\ "groups" \notin DOMAIN local_result
  /\ \E p \in unlexable_inside : p < lx_start + Len(lx_result.value)
  /\ \E p \in unlexable_inside : p < lx_start + Len(local_result.value)

\* C33: after the pops of a reduction the state pushed is the target of the
\* entry that the state then on top has for the name of the produced symbol,
\* and that entry is a goto entry; when there is no entry, or the entry was
\* not loaded from a goto for a non-terminal, the step throws an error and
\* pushes nothing, and the parse has no ParseError result.
\* the entry of a state for a name: the last transition with a symbol of that
\* name, as build_lr sets the map
transitions_named(state, name) ==
  { k \in DOMAIN lr_state_table[state + 1] :
      symbols(lr_state_table[state + 1][k].look_ahead_symbol).name = name }

entry_loaded(state, name) ==
  lr_state_table[state + 1][CHOOSE k \in transitions_named(state, name) :
                              \A j \in transitions_named(state, name) : j <= k]

is_goto_entry(state, name) ==
  /\ transitions_named(state, name) # {}
  /\ entry_loaded(state, name).action_type = GOTO
  /\ symbols(entry_loaded(state, name).look_ahead_symbol).type = NON_TERMINAL

\* parse_string is about to do a step in a state with edges
step_next == pc = "loop" /\ look_ahead # undefined /\ ~no_edges(Top(stack).current_state)

action_next == MapGet(edges_of(Top(stack).current_state), look_ahead.symbol.name)

\* the step is a reduction that leaves an item with a state on the stack
reduce_next ==
  /\ step_next
  /\ action_next # undefined
  /\ action_next # Accept
  /\ action_next.type = REDUCE
  /\ Len(stack) > Len(rules(action_next.target).consumes)
  /\ ~no_edges(stack[Len(stack) - Len(rules(action_next.target).consumes)].current_state)

reduce_rule == rules(action_next.target)
reduce_rest == SubSeq(stack, 1, Len(stack) - Len(reduce_rule.consumes))
reduce_top == Top(reduce_rest).current_state

C33_GotoEntry ==
  reduce_next =>
    IF is_goto_entry(reduce_top, reduce_rule.produces.name)
    THEN /\ pc' = "on_reduce"
         /\ Len(stack') = Len(reduce_rest) + 1
         /\ SubSeq(stack', 1, Len(reduce_rest)) = reduce_rest
         /\ Top(stack').current_state
              = entry_loaded(reduce_top, reduce_rule.produces.name).value
         /\ Top(stack').parse_tree.symbol = reduce_rule.produces
    ELSE /\ pc' = "done"
         /\ "error" \in DOMAIN result'
         /\ stack' = reduce_rest

C33_GotoChecked == [][C33_GotoEntry]_vars

\* the node <Value> was pushed with the target of the action that the state
\* on top has for the terminal Value
C33_Witness ==
  /\ pc = "on_reduce"
  /\ stack[1].current_state = 15
  /\ Len(stack) = 2
  /\ Top(stack).parse_tree.symbol = symbols(14)
  /\ Top(stack).current_state = 14
  /\ ~is_goto_entry(15, "Value")

\* what the code checks: a reduction with no entry for the produced name throws
\* "Symbol not found", with any entry that is not Accept it pushes
C33_MissingEntryThrows ==
  [][reduce_next =>
       IF MapGet(edges_of(reduce_top), reduce_rule.produces.name) = undefined
       THEN pc' = "done" /\ result' = [error |-> "Symbol not found"]
       ELSE IF MapGet(edges_of(reduce_top), reduce_rule.produces.name) = Accept
       THEN pc' = "done" /\ result' = [error |-> "Unexpected Accept"]
       ELSE pc' = "on_reduce" /\ Len(stack') = Len(reduce_rest) + 1]_vars

\* C34: the sentinel item stays at the bottom of the stack for the whole
\* parse: the stack is never empty and its first item is the sentinel; a
\* reduction by a rule that consumes more items than lie above the sentinel
\* throws "State mismatch" and leaves the stack as it is; the node of the
\* sentinel is never the returned tree and never a child of a node.
is_sentinel(tree) == tree.symbol.name = "INITIAL_STATE"

has_sentinel_child(tree) ==
  \E c \in DOMAIN tree.children : is_sentinel(tree.children[c])

C34_SentinelOutOfTrees ==
  /\ \A i \in DOMAIN stack :
       /\ i > 1 => ~is_sentinel(stack[i].parse_tree)
       /\ ~has_sentinel_child(stack[i].parse_tree)
  /\ "symbol" \in DOMAIN result =>
       ~is_sentinel(result) /\ ~has_sentinel_child(result)

C34_SentinelAtBottom ==
  /\ Len(stack) >= 1
  /\ is_sentinel(stack[1].parse_tree)

\* the step is a reduction by a rule with more symbols than items lie above
\* the sentinel
short_reduce_next ==
  /\ step_next
  /\ action_next # undefined
  /\ action_next # Accept
  /\ action_next.type = REDUCE
  /\ Len(stack) - 1 < Len(rules(action_next.target).consumes)

C34_Sentinel ==
  /\ [](C34_SentinelAtBottom /\ C34_SentinelOutOfTrees)
  /\ [][short_reduce_next =>
          /\ pc' = "done"
          /\ result' = [error |-> "State mismatch"]
          /\ stack' = stack]_vars

\* a reduction popped the sentinel: the stack is empty and the parse ended
\* with a TypeError
C34_Witness ==
  /\ pc = "done"
  /\ stack = <<>>
  /\ result = [error |-> "TypeError"]
  /\ Len(events) = 1

\* what the code keeps: the sentinel is in no tree, and a rule with more
\* symbols than the stack has items, the sentinel counted, is a state mismatch
C34_SentinelCounted ==
  /\ []C34_SentinelOutOfTrees
  /\ [][(short_reduce_next /\ Len(stack) < Len(rules(action_next.target).consumes)) =>
          /\ pc' = "done"
          /\ result' = [error |-> "State mismatch"]
          /\ stack' = stack]_vars

\* C35: index resolution is two-phase and total on the reachable graph. A
\* record may name a state, character set, symbol or rule whose record comes
\* later in the file; linking ends also when the DFA or LALR graph has cycles
\* or self-loops; each state index is resolved to exactly one linked object,
\* so all edges that name the same index lead to the same state.
one_object_per_index(st, targets) ==
  /\ \A k \in DOMAIN st.map :
       st.map[k] \in DOMAIN st.heap /\ st.heap[st.map[k]].index = k
  /\ \A i \in DOMAIN st.heap : \A j \in DOMAIN st.heap :
       st.heap[i].index = st.heap[j].index => i = j
  /\ \A i \in DOMAIN st.heap :
       /\ Len(st.heap[i].edges) = Len(targets[st.heap[i].index + 1])
       /\ \A e \in DOMAIN st.heap[i].edges :
            /\ st.heap[i].edges[e] \in DOMAIN st.heap
            /\ st.heap[st.heap[i].edges[e]].index = targets[st.heap[i].index + 1][e]

\* the file has a record of the type for the index
has_record(type, index) ==
  \E r \in DOMAIN file.records :
    /\ file.records[r].type = type
    /\ Len(file.records[r].fields) > 0
    /\ file.records[r].fields[1] = IntField(index)

\* the first record of the type for the index comes behind the record r
record_behind(type, index, r) ==
  /\ has_record(type, index)
  /\ \A q \in DOMAIN file.records :
       (/\ file.records[q].type = type
        /\ Len(file.records[q].fields) > 0
        /\ file.records[q].fields[1] = IntField(index)) => q > r

references_resolved ==
  /\ \A i \in DOMAIN loader.result.dfa.states :
       /\ (/\ at(loader.dfa_states, i).result # undefined
           /\ has_record("S", at(loader.dfa_states, i).result.index))
            => loader.result.dfa.states[i].result # undefined
       /\ \A e \in DOMAIN loader.result.dfa.states[i].edges :
            /\ has_record("C", at(loader.dfa_states, i).edges[e].label)
                 => loader.result.dfa.states[i].edges[e].label # undefined
            /\ has_record("D", loader.result.dfa.states[i].edges[e].target)
  /\ \A i \in DOMAIN loader.result.lalr.states :
       \A t \in DOMAIN at(loader.lr_states, i).transitions :
         /\ (/\ at(loader.lr_states, i).transitions[t].action_type = REDUCE
             /\ has_record("R", at(loader.lr_states, i).transitions[t].value))
              => at(loader.result.rules, at(loader.lr_states, i).transitions[t].value)
                   # undefined
         /\ at(loader.lr_states, i).transitions[t].action_type \in {GOTO, SHIFT}
              => at(loader.lr_states, i).transitions[t].value
                   \in DOMAIN loader.result.lalr.states

C35_TwoPhaseLinking ==
  loader.pc = "done" =>
    /\ one_object_per_index(loader.result.dfa_objects, dfa_targets(loader.dfa_states))
    /\ one_object_per_index(loader.result.lr_objects, lr_targets(loader.lr_states))
    /\ DOMAIN loader.result.dfa_objects.map = DOMAIN loader.result.dfa.states
    /\ DOMAIN loader.result.lr_objects.map = DOMAIN loader.result.lalr.states
    /\ references_resolved

\* a load succeeded whose DFA and LALR states both have a self-loop and a
\* cycle, and whose last DFA and LALR records name a character set, a symbol
\* and a rule with records further behind
C35_Witness ==
  /\ loader.pc = "done"
  /\ \E i \in DOMAIN loader.result.dfa_objects.heap :
       /\ \E e \in DOMAIN loader.result.dfa_objects.heap[i].edges :
            loader.result.dfa_objects.heap[i].edges[e] = i
       /\ \E e \in DOMAIN loader.result.dfa_objects.heap[i].edges :
            loader.result.dfa_objects.heap[i].edges[e] < i
  /\ \E i \in DOMAIN loader.result.lr_objects.heap :
       /\ \E e \in DOMAIN loader.result.lr_objects.heap[i].edges :
            loader.result.lr_objects.heap[i].edges[e] = i
       /\ \E e \in DOMAIN loader.result.lr_objects.heap[i].edges :
            loader.result.lr_objects.heap[i].edges[e] < i
  /\ \E r \in DOMAIN file.records :
       /\ file.records[r].type = "D"
       /\ record_behind("C", 1, r)
       /\ record_behind("S", 2, r)
       /\ loader.result.dfa.states[1].result # undefined
       /\ loader.result.dfa.states[1].edges[1].label # undefined
  /\ \E r \in DOMAIN file.records :
       /\ file.records[r].type = "L"
       /\ record_behind("R", 1, r)
       /\ at(loader.result.rules, 1) # undefined

\* C36: record field accounting. The loader consumes exactly as many fields
\* of a record as its Multi marker announces: it goes on to the next record,
\* or ends the loop, only when the fields read since start_record are as many
\* as announced; a check of a record with more fields read than announced
\* fails, the check behind the handler fails when fields are left over, also
\* when the file ends inside the record.
record_checked ==
  /\ loader.pc = "handler"
  /\ loader'.call = "record_finished"

C36_CheckedStep ==
  /\ (loader.pc = "handler" /\ loader'.pc = "loop")
       => loader.fields = loader.announced
  /\ (record_checked /\ loader.fields > loader.announced)
       => loader'.pc = "failed" /\ loader'.error = "Overshot record"
  /\ (record_checked /\ loader.fields < loader.announced)
       => \/ loader'.pc = "handler" /\ ~eof(file)
          \/ loader'.pc = "failed" /\ loader'.error = "Incomplete record reading"
  /\ (record_checked /\ loader.fields = loader.announced)
       => loader'.pc \in {"handler", "loop"}

C36_Accounted ==
  loader.pc \in {"loop", "done"} =>
    /\ loader.fields = loader.announced
    /\ file.remaining_records = 0

type_read_by(call) ==
  CASE call = "read_bool" -> BOOLEAN_TYPE
    [] call = "read_empty" -> EMPTY
    [] call = "read_int" -> INT
    [] call = "read_string" -> STRING_TYPE
    [] call = "read_byte" -> BYTE

typed_reads == {"read_bool", "read_empty", "read_int", "read_string", "read_byte"}

other_tag_found(call) ==
  /\ call \in typed_reads
  /\ in_range(file, file.read_head, 1)
  /\ readUInt8(file, file.read_head) # type_read_by(call)

C40_ReaderKept ==
  other_tag_found(loader'.call) =>
    /\ loader'.pc = "failed"
    /\ loader'.error = "Unexpected data type"
    /\ file'.read_head = file.read_head
    /\ file'.remaining_records = file.remaining_records
    /\ file' = file

C40_TypedReadFrame == [][C40_ReaderKept]_vars

\* a typed read has failed on the tag of another type in a record of which
\* fields remain to be read
C40_Witness ==
  /\ loader.pc = "failed"
  /\ loader.error = "Unexpected data type"
  /\ other_tag_found(loader.call)
  /\ file.remaining_records > 0
  /\ loader.fields >= 1

\* C37: the actions for terminals and the gotos for non-terminals of an LALR
\* state never collide in the one map keyed by the symbol name: the entry a
\* look-ahead token is matched against was loaded from a shift, reduce or
\* accept for a terminal, and the entry the goto lookup of a reduction finds
\* was loaded from a goto for a non-terminal, also when a terminal and a
\* non-terminal have the same name and when a state has two actions for
\* symbols of the same name.
is_action_entry(state, name) ==
  /\ entry_loaded(state, name).action_type \in {SHIFT, REDUCE, ACCEPT}
  /\ symbols(entry_loaded(state, name).look_ahead_symbol).type # NON_TERMINAL

C37_NoCollision ==
  /\ (step_next /\ action_next # undefined)
       => is_action_entry(Top(stack).current_state, look_ahead.symbol.name)
  /\ (reduce_next /\ MapGet(edges_of(reduce_top), reduce_rule.produces.name) # undefined)
       => is_goto_entry(reduce_top, reduce_rule.produces.name)

\* "vv" is accepted with the tables of state 10, whose grammar has the one
\* sentence "av": the terminal Value was shifted by the goto of <Value>
C37_Witness ==
  /\ pc = "done"
  /\ str = <<"v", "v">>
  /\ Len(stack) > 0
  /\ stack[1].current_state = 10
  /\ "symbol" \in DOMAIN result
  /\ result.symbol = symbols(12)
  /\ Len(result.children) = 2
  /\ result.children[1].token # undefined
  /\ result.children[1].symbol = symbols(17)

\* C38: on Accept the leaves of the returned tree, read from left to right,
\* are the tokens of the input that are not skipped, in the order of the
\* input: the tokens handed to on_token without the end-of-file token. No
\* token is lost, doubled or out of order, and no skipped token (whitespace,
\* comment group) is in the tree.
RECURSIVE leaves_in_order(_)
RECURSIVE leaves_of_children(_, _)
leaves_of_children(children, k) ==
  IF k > Len(children) THEN <<>>
  ELSE leaves_in_order(children[k]) \o leaves_of_children(children, k + 1)

leaves_in_order(node) ==
  IF node.token # undefined THEN <<node.token>>
  ELSE leaves_of_children(node.children, 1)

is_input_token(tok) == tok.symbol.type \notin {SKIP_SYMBOLS, FILE_END}

observed_token(e) == e.event = "on_token" /\ e.token.symbol.type # FILE_END

observed_tokens == [k \in DOMAIN SelectSeq(events, observed_token) |->
                      SelectSeq(events, observed_token)[k].token]

\* the tokens are pieces of the input, each behind the one before it
in_input_order(toks) ==
  \A k \in DOMAIN toks :
    /\ toks[k].value = SubSeq(str, toks[k].position + 1,
                              toks[k].position + Len(toks[k].value))
    /\ k > 1 => toks[k - 1].position + Len(toks[k - 1].value) <= toks[k].position

C38_LeavesAreTokens ==
  (pc = "done" /\ "symbol" \in DOMAIN result) =>
    /\ leaves_in_order(result) = SelectSeq(lexed, is_input_token)
    /\ leaves_in_order(result) = observed_tokens
    /\ in_input_order(leaves_in_order(result))
    /\ \A k \in DOMAIN leaves_in_order(result) :
         ~skippable(leaves_in_order(result)[k])
    /\ lexed # <<>> /\ lexed[Len(lexed)].symbol.type = FILE_END

\* an input with a comment group between its tokens was accepted with a tree
\* of three leaves
C38_Witness ==
  /\ pc = "done"
  /\ "symbol" \in DOMAIN result
  /\ Len(leaves_in_order(result)) = 3
  /\ \E k \in DOMAIN lexed :
       /\ lexed[k].symbol.name = "Comment"
       /\ skippable(lexed[k])
       /\ k < Len(lexed) - 1

\* C39: every parse returns. For every input and all loaded tables, with
\* observers that return, parse_string comes to a result after finitely many
\* steps: it does not reduce without end on one look-ahead, and it does not
\* call the lexer again once the end-of-file token was lexed.
\* a reduction that consumes nothing and leaves the parser in the state it
\* was in, with the look-ahead it had: the next step is that reduction again
idle_reduction ==
  /\ reduce_next
  /\ reduce_rule.consumes = <<>>
  /\ pc' = "on_reduce"
  /\ look_ahead' = look_ahead
  /\ Top(stack').current_state = Top(stack).current_state

C39_Returns == [][~idle_reduction]_vars /\ <>(pc = "done")

\* every step of parse_string adds a token or an observer call, or is the
\* return of an observer or of parse_string
steps_made ==
  2 * (Len(events) + Len(lexed))
    + (IF pc = "loop" THEN 1 ELSE IF pc = "done" THEN 2 ELSE 0)

C39_StepsCounted == [][steps_made' > steps_made]_vars

\* the end-of-file token is the last token lexed
C39_NoLexAfterEof ==
  \A k \in DOMAIN lexed : lexed[k].symbol.type = FILE_END => k = Len(lexed)

C39_EofLexedOnce == [][C39_NoLexAfterEof => C39_NoLexAfterEof']_vars /\ []C39_NoLexAfterEof

\* with the tables of state 19 the look-ahead a has been reduced on as often
\* as the stack may grow: every item above the sentinel is an empty <Value>
\* in state 19, nothing was shifted, and the next step is the same reduction
C39_Witness ==
  /\ pc = "loop"
  /\ look_ahead # undefined
  /\ look_ahead.symbol = symbols(8)
  /\ Len(stack) = MaxTabStack + 1
  /\ \A k \in DOMAIN stack : stack[k].current_state = 19
  /\ \A k \in 2..Len(stack) :
       /\ stack[k].parse_tree.symbol = symbols(14)
       /\ stack[k].parse_tree.children = <<>>
  /\ \A k \in DOMAIN events : events[k].event # "on_shift"
  /\ LALR_step(look_ahead, stack).step = "REDUCE"
  /\ Top(LALR_step(look_ahead, stack).stack).current_state = 19

====
